---------------------------- MODULE Spec2Model ----------------------------
(***************************************************************************)
(* A model of src/phits/phitsmcpl.c: the converters between MCPL files and *)
(* binary PHITS dump files.                                                *)
(*                                                                         *)
(*   SpecText  phitsmcpl_buf_is_text, the text classifier                  *)
(*   SpecWR    phits_writerecord, one Fortran record on a stream           *)
(*   SpecM2P   mcpl2phits, MCPL file -> PHITS dump file                    *)
(*   SpecP2M   phits2mcpl2 with phitsmcpl_file2buf, PHITS dump -> MCPL     *)
(*   SpecF2B   phitsmcpl_file2buf, statement by statement                  *)
(*                                                                         *)
(* Each specification leaves the variables of the others at their idle     *)
(* values.                                                                 *)
(***************************************************************************)
EXTENDS Integers, Sequences, FiniteSets, TLC

VARIABLES
  \* phitsmcpl_buf_is_text
  t_buf, t_n, t_ret,
  \* phits_writerecord
  wr_pc, wr_reclen, wr_lbuf, wr_buf, wr_old, wr_out,
  \* mcpl2phits: its arguments, the MCPL file and the read position in it,
  \* its locals, the output stream, the open handles, what was printed, the
  \* fwrite results of the last record and the return value
  m_pc, use_polarisation, nparticles_limit, m_reclen,
  fmcpl, m_pos, used, skipped_nophitstype, dumpdata,
  fout, m_open, m_log, m_nb, m_ret,
  \* phits2mcpl2: its arguments (the two ancillary files by their place in
  \* AncillaryFiles, 0 for NULL), the PHITS dump file and the read position
  \* in it, the MCPL output handle, the particle slot, the open handles,
  \* what was printed and the return value
  p_pc, opt_dp, opt_gzip, inputdeckfile, dumpsummaryfile,
  phitsdump, has_polarisation, p_pos, mcplfh, mcpl_particle,
  p_open, p_log, p_ret,
  \* the loop of mcpl2phits late in a long run: the records read and written
  \* before (b_used0, none skipped), the limit and the counter used at their
  \* full width, the source records still to come and the read position
  \* among them, and what was written and printed since
  b_pc, b_used0, b_limit, b_reclen, b_pol, b_src, b_pos, b_used, b_skipped,
  b_out, b_log, b_nb,
  \* the two command-line tools: the tool, its arguments, the call of the
  \* converter it made, what it printed and its exit status
  a_pc, a_tool, argv, a_call, a_log, a_exit,
  \* one particle taken from MCPL to a PHITS record and back
  rt_pc, rt_particle, rt_record, rt_back,
  \* one call of phitsmcpl_file2buf: the file on disk, the arguments maxsize
  \* and require_text, the caller's *buf and *lbuf, the locals bbuf_size,
  \* bbuf_size_guess and left, the bytes fread has stored (bbuf_iter - bbuf),
  \* the short reads so far, the state of the malloc'ed block, whether the
  \* FILE is open, what was printed and the return value
  f_pc, f_file, f_maxsize, f_require_text, f_buf, f_lbuf,
  f_bbuf_size, f_bbuf_size_guess, f_left, f_got, f_short, f_heap,
  f_open, f_log, f_ret

textVars == <<t_buf, t_n, t_ret>>
wrVars == <<wr_pc, wr_reclen, wr_lbuf, wr_buf, wr_old, wr_out>>
m2pArgs == <<use_polarisation, nparticles_limit, m_reclen, fmcpl>>
m2pVars ==
  <<m_pc, m2pArgs, m_pos, used, skipped_nophitstype, dumpdata,
    fout, m_open, m_log, m_nb, m_ret>>
p2mArgs == <<opt_dp, opt_gzip, inputdeckfile, dumpsummaryfile, phitsdump, has_polarisation>>
p2mVars == <<p_pc, p2mArgs, p_pos, mcplfh, mcpl_particle, p_open, p_log, p_ret>>
bigVars ==
  <<b_pc, b_used0, b_limit, b_reclen, b_pol, b_src, b_pos, b_used, b_skipped,
    b_out, b_log, b_nb>>
appVars == <<a_pc, a_tool, argv, a_call, a_log, a_exit>>
rtVars == <<rt_pc, rt_particle, rt_record, rt_back>>
f2bVars ==
  <<f_pc, f_file, f_maxsize, f_require_text, f_buf, f_lbuf,
    f_bbuf_size, f_bbuf_size_guess, f_left, f_got, f_short, f_heap,
    f_open, f_log, f_ret>>
vars == <<textVars, wrVars, m2pVars, p2mVars, bigVars, appVars, rtVars, f2bVars>>

-----------------------------------------------------------------------------
(* Bounds of the model. *)

\* longest buffer handed to phitsmcpl_buf_is_text
MaxTextLen == 2
\* longest explicit payload handed to phits_writerecord on its own
MaxPayload == 2
\* most particles in a source file
MaxParticles == 3
\* largest particle-count limit given to mcpl2phits
MaxLimit == 2
\* most particles without a PHITS code at the head of a long source file
MaxSkipped == 101
\* most source records still to come late in a long run
MaxTail == 4
\* largest time, in ms, of a particle taken to PHITS and back
MaxTime == 60
\* most arguments on a command line
MaxArgs == 3
\* most short counts fread returns in one call of phitsmcpl_file2buf
MaxShortReads == 2

-----------------------------------------------------------------------------
(* Idle values. *)

TextIdle == t_buf = <<>> /\ t_n = 0 /\ t_ret = -1
WRIdle ==
  /\ wr_pc = "idle" /\ wr_reclen = 4 /\ wr_lbuf = <<0, 0, 0, 0>>
  /\ wr_buf = [unit |-> <<>>, len |-> <<0, 0, 0, 0>>]
  /\ wr_old = <<>> /\ wr_out = <<>>
M2PIdle ==
  /\ m_pc = "idle" /\ use_polarisation = 0 /\ nparticles_limit = 0 /\ m_reclen = 4
  /\ fmcpl = <<>> /\ m_pos = 0 /\ used = 0 /\ skipped_nophitstype = 0
  /\ dumpdata = <<>> /\ fout = <<>> /\ m_open = {} /\ m_log = <<>>
  /\ m_nb = <<>> /\ m_ret = -1
P2MIdle ==
  /\ p_pc = "idle" /\ opt_dp = 0 /\ opt_gzip = 0
  /\ inputdeckfile = 0 /\ dumpsummaryfile = 0
  /\ phitsdump = <<>> /\ has_polarisation = FALSE /\ p_pos = 0
  /\ mcplfh = <<>> /\ mcpl_particle = <<>>
  /\ p_open = {} /\ p_log = <<>> /\ p_ret = -1

BigIdle ==
  /\ b_pc = "idle" /\ b_used0 = <<0, 0, 0, 0>> /\ b_limit = <<0, 0, 0, 0>>
  /\ b_reclen = 4 /\ b_pol = 0 /\ b_src = <<>> /\ b_pos = 0
  /\ b_used = <<0, 0, 0, 0>> /\ b_skipped = 0
  /\ b_out = <<>> /\ b_log = <<>> /\ b_nb = <<>>
AppIdle ==
  /\ a_pc = "idle" /\ a_tool = "none" /\ argv = <<>> /\ a_call = <<>>
  /\ a_log = <<>> /\ a_exit = -1
RTIdle == rt_pc = "idle" /\ rt_particle = <<>> /\ rt_record = <<>> /\ rt_back = <<>>
F2BIdle ==
  /\ f_pc = "idle" /\ f_file = <<>> /\ f_maxsize = 0 /\ f_require_text = 0
  /\ f_buf = "NULL" /\ f_lbuf = 0 /\ f_bbuf_size = 0 /\ f_bbuf_size_guess = 0
  /\ f_left = 0 /\ f_got = 0 /\ f_short = 0 /\ f_heap = "none"
  /\ f_open = FALSE /\ f_log = "" /\ f_ret = -1

-----------------------------------------------------------------------------
(* phitsmcpl_buf_is_text (lines 54-63).  A buffer is a sequence of         *)
(* unsigned char values 0..255; the loop walks buf..bufE and returns 0 at  *)
(* the first byte outside the accepted ranges.                             *)

\* the loop with DEL (127) accepted as printable: a mutant of the classifier
RECURSIVE buf_is_text_loop_del(_, _, _)
buf_is_text_loop_del(buf, i, bufE) ==
  IF i = bufE THEN 1
  ELSE IF ~( (buf[i] >= 9 /\ buf[i] <= 13) \/ (buf[i] >= 32 /\ buf[i] <= 127)
             \/ buf[i] >= 128 )
       THEN 0
       ELSE buf_is_text_loop_del(buf, i + 1, bufE)

RECURSIVE buf_is_text_loop(_, _, _)
buf_is_text_loop(buf, i, bufE) ==
  IF i = bufE THEN 1
  ELSE IF ~( (buf[i] >= 9 /\ buf[i] <= 13) \/ (buf[i] >= 32 /\ buf[i] <= 126)
             \/ buf[i] >= 128 )
       THEN 0
       ELSE buf_is_text_loop(buf, i + 1, bufE)

phitsmcpl_buf_is_text(n, buf) == buf_is_text_loop(buf, 1, n + 1)

\* bytes on and around every boundary of the three accepted ranges
SampleBytes == {0, 8, 9, 13, 14, 31, 32, 126, 127, 128, 255}

RECURSIVE SeqsUpTo(_, _)
SeqsUpTo(S, n) ==
  IF n = 0 THEN {<<>>}
  ELSE LET shorter == SeqsUpTo(S, n - 1)
       IN shorter \cup {Append(s, x) : s \in {t \in shorter : Len(t) = n - 1}, x \in S}

TextInit ==
  /\ t_buf \in SeqsUpTo(SampleBytes, MaxTextLen)
  /\ t_n \in 0..Len(t_buf)
  /\ t_ret = -1

TextCall ==
  /\ t_ret = -1
  /\ t_ret' = phitsmcpl_buf_is_text(t_n, t_buf)
  /\ UNCHANGED <<t_buf, t_n, wrVars, m2pVars, p2mVars, bigVars, appVars, rtVars, f2bVars>>

-----------------------------------------------------------------------------
(* Sizes, bytes and streams.                                               *)
(*                                                                         *)
(* A size_t is 64 bits wide: four 16-bit limbs, least significant first,   *)
(* so that lengths of 2^32 and more are values of the model.  A byte of a  *)
(* stream is <<"u8", b, 0, 0>> for an integer byte b, or                   *)
(* <<"dbl", m, e, k>> for byte k of the object representation of the       *)
(* double m * 2^e.  A memory object or a written extent is                 *)
(* [unit, len]: len bytes, the bytes of unit repeated; unit is the whole   *)
(* content whenever len = Len(unit).  A stream is the sequence of the      *)
(* extents written to it.                                                  *)

ToSizeT(n) == <<n % 65536, n \div 65536, 0, 0>>
IsSmall(s) == s[3] = 0 /\ s[4] = 0 /\ s[2] < 32768
FromSizeT(s) == s[1] + 65536 * s[2]

U8(b) == <<"u8", b, 0, 0>>

\* the object representation of an unsigned integer given by its limbs
\* (least significant byte first)
RECURSIVE ObjectBytes(_)
ObjectBytes(limbs) ==
  IF limbs = <<>> THEN <<>>
  ELSE <<U8(Head(limbs) % 256), U8(Head(limbs) \div 256)>> \o ObjectBytes(Tail(limbs))

\* uint32_t rl = lbuf (line 330): the value modulo 2^32
uint32_of(lbuf) == [unit |-> ObjectBytes(<<lbuf[1], lbuf[2]>>), len |-> ToSizeT(4)]
\* uint64_t rl = lbuf (line 342)
uint64_of(lbuf) == [unit |-> ObjectBytes(lbuf), len |-> ToSizeT(8)]

\* the first nb bytes of a memory object
Prefix(obj, nb) ==
  [unit |-> IF IsSmall(nb) /\ FromSizeT(nb) < Len(obj.unit)
            THEN SubSeq(obj.unit, 1, FromSizeT(nb)) ELSE obj.unit,
   len |-> nb]

\* a mutant: the bytes are put at the front of the stream
fwrite_front(stream, ptr, nb) ==
  IF nb = ToSizeT(0) THEN stream ELSE <<Prefix(ptr, nb)>> \o stream

\* fwrite(ptr, 1, n, stream) returning nb: the first nb bytes of ptr are appended
fwrite(stream, ptr, nb) ==
  IF nb = ToSizeT(0) THEN stream ELSE Append(stream, Prefix(ptr, nb))

\* the values fwrite(ptr, 1, n, stream) can return: n, or fewer on a short write
FwriteResults(n) ==
  {n} \cup (IF n = ToSizeT(0) THEN {}
            ELSE IF IsSmall(n) THEN {ToSizeT(0), ToSizeT(FromSizeT(n) - 1)}
            ELSE {ToSizeT(0), ToSizeT(1)})

-----------------------------------------------------------------------------
(* phits_writerecord (lines 327-353).  nb holds the values the three       *)
(* fwrite calls return.  phits_error ends the process, so a short write    *)
(* leaves the stream as it is after that write.  err is "none" on a normal *)
(* return, "write error" when phits_error was called and "assert" when     *)
(* assert(reclen==8) failed; nb is what the fwrite calls made returned.    *)

\* a mutant: the trailing marker holds the length of the marker, not of the
\* payload
write_marked_trail(outfile, rl, lbuf, buf, nb) ==
  LET s1 == fwrite(outfile, rl, nb[1])
      s2 == fwrite(s1, buf, nb[2])
      s3 == fwrite(s2, [rl EXCEPT !.unit = [i \in 1..Len(rl.unit) |->
                                             IF i = 1 THEN U8(Len(rl.unit)) ELSE U8(0)]],
                   nb[3])
  IN IF nb[1] # rl.len THEN [out |-> s1, err |-> "write error", nb |-> <<nb[1]>>]
     ELSE IF nb[2] # lbuf THEN [out |-> s2, err |-> "write error", nb |-> <<nb[1], nb[2]>>]
     ELSE IF nb[3] # rl.len THEN [out |-> s3, err |-> "write error", nb |-> nb]
     ELSE [out |-> s3, err |-> "none", nb |-> nb]

\* a mutant: the result of the payload write is not checked
write_marked_unchecked(outfile, rl, lbuf, buf, nb) ==
  LET s1 == fwrite(outfile, rl, nb[1])
      s2 == fwrite(s1, buf, nb[2])
      s3 == fwrite(s2, rl, nb[3])
  IN IF nb[1] # rl.len THEN [out |-> s1, err |-> "write error", nb |-> <<nb[1]>>]
     ELSE IF nb[3] # rl.len THEN [out |-> s3, err |-> "write error", nb |-> nb]
     ELSE [out |-> s3, err |-> "none", nb |-> nb]

\* lines 331-339 and 343-351: marker, payload, marker, each checked
write_marked(outfile, rl, lbuf, buf, nb) ==
  LET s1 == fwrite(outfile, rl, nb[1])
      s2 == fwrite(s1, buf, nb[2])
      s3 == fwrite(s2, rl, nb[3])
  IN IF nb[1] # rl.len THEN [out |-> s1, err |-> "write error", nb |-> <<nb[1]>>]
     ELSE IF nb[2] # lbuf THEN [out |-> s2, err |-> "write error", nb |-> <<nb[1], nb[2]>>]
     ELSE IF nb[3] # rl.len THEN [out |-> s3, err |-> "write error", nb |-> nb]
     ELSE [out |-> s3, err |-> "none", nb |-> nb]

phits_writerecord(outfile, reclen, lbuf, buf, nb) ==
  IF reclen = 4 THEN write_marked(outfile, uint32_of(lbuf), lbuf, buf, nb)
  ELSE IF reclen # 8 THEN [out |-> outfile, err |-> "assert", nb |-> <<>>]
  ELSE write_marked(outfile, uint64_of(lbuf), lbuf, buf, nb)

\* the fwrite results of one call: marker, payload, marker
WriteResults(reclen, lbuf) ==
  FwriteResults(ToSizeT(reclen)) \X FwriteResults(lbuf) \X FwriteResults(ToSizeT(reclen))

\* payload lengths of 2^16 and more, around the range of a 32 bit marker
LargeSizes ==
  {<<0, 1, 0, 0>>, <<65535, 65535, 0, 0>>, <<0, 0, 1, 0>>, <<3, 0, 1, 0>>, <<0, 0, 0, 1>>}

\* the buffers and lengths a call is made with: lbuf bytes of buf are readable
WRInputs ==
  {<<[unit |-> u, len |-> ToSizeT(Len(u))], ToSizeT(j)>> :
      u \in SeqsUpTo({U8(7), U8(9)}, MaxPayload), j \in 0..MaxPayload}
  \cup {<<[unit |-> <<U8(7)>>, len |-> h], h>> : h \in LargeSizes}

\* a stream holding one earlier record of one byte
OneRecord(reclen) ==
  phits_writerecord(<<>>, reclen, ToSizeT(1), [unit |-> <<U8(5)>>, len |-> ToSizeT(1)],
                    <<ToSizeT(reclen), ToSizeT(1), ToSizeT(reclen)>>).out

WRInit ==
  /\ wr_pc = "call"
  /\ wr_reclen \in {4, 8}
  /\ \E in \in WRInputs :
       /\ IsSmall(in[2]) => FromSizeT(in[2]) <= FromSizeT(in[1].len)
       /\ wr_buf = in[1]
       /\ wr_lbuf = in[2]
  /\ wr_old \in {<<>>, OneRecord(wr_reclen)}
  /\ wr_out = wr_old

WRCall ==
  /\ wr_pc = "call"
  /\ \E nb \in WriteResults(wr_reclen, wr_lbuf) :
       LET r == phits_writerecord(wr_out, wr_reclen, wr_lbuf, wr_buf, nb)
       IN /\ wr_out' = r.out
          /\ wr_pc' = IF r.err = "none" THEN "returned" ELSE "exit"
  /\ UNCHANGED <<wr_reclen, wr_lbuf, wr_buf, wr_old, textVars, m2pVars, p2mVars, bigVars, appVars, rtVars, f2bVars>>

-----------------------------------------------------------------------------
(* Doubles.  <<m, e>> is the double m * 2^e, with m = 0 or                 *)
(* 2^14 <= |m| < 2^15: a binary floating-point number with a significand   *)
(* of 15 bits where the C double has 53, so that a product of two          *)
(* significands is an integer TLC can hold.  Multiplication rounds to      *)
(* nearest, ties to even, as IEEE 754 does.  1.0e6 is exact in both        *)
(* formats; 1.0e-6 is rounded in both.                                     *)

RECURSIVE DblNorm(_, _)
DblNorm(m, e) ==
  IF m = 0 THEN <<0, 0>>
  ELSE IF m < 16384 /\ m > -16384 THEN DblNorm(2 * m, e - 1)
  ELSE <<m, e>>

\* the conversion of an integer of magnitude below 2^15 to double: exact
DblFromInt(n) == DblNorm(n, 0)

DblMul(a, b) ==
  IF a[1] = 0 \/ b[1] = 0 THEN <<0, 0>>
  ELSE LET sgn == IF (a[1] < 0) = (b[1] < 0) THEN 1 ELSE -1
           ma == IF a[1] < 0 THEN -a[1] ELSE a[1]
           mb == IF b[1] < 0 THEN -b[1] ELSE b[1]
           p == ma * mb
           sh == IF p >= 536870912 THEN 15 ELSE 14
           d == IF sh = 15 THEN 32768 ELSE 16384
           q == p \div d
           r == p % d
           up == 2 * r > d \/ (2 * r = d /\ q % 2 = 1)
           q2 == IF up THEN q + 1 ELSE q
       IN IF q2 = 32768 THEN <<sgn * 16384, a[2] + b[2] + sh + 1>>
          ELSE <<sgn * q2, a[2] + b[2] + sh>>

\* a mutant: 1.0e3 in the place of 1.0e6
Dbl1e3 == <<32000, -5>>

\* the literals 1.0e6 (line 193) and 1.0e-6 (line 408)
Dbl1e6 == <<31250, 5>>
Dbl1em6 == <<17180, -34>>

\* the 8 bytes of the object representation of a double
DoubleBytes(x) == [k \in 1..8 |-> <<"dbl", x[1], x[2], k - 1>>]

RECURSIVE ArrayBytes(_)
ArrayBytes(a) == IF a = <<>> THEN <<>> ELSE DoubleBytes(Head(a)) \o ArrayBytes(Tail(a))

-----------------------------------------------------------------------------
(* The MCPL side, as mcpl.h gives it: a file is the sequence of its        *)
(* particles (here their places in McplParticles), mcpl_hdr_nparticles is  *)
(* its length and mcpl_read returns the next particle or NULL.             *)

McplParticles ==
  << \* an electron
     [pdgcode |-> 11,
      position |-> <<DblFromInt(1), DblFromInt(2), DblFromInt(3)>>,
      direction |-> <<DblFromInt(0), DblFromInt(0), DblFromInt(1)>>,
      polarisation |-> <<DblFromInt(0), DblFromInt(1), DblFromInt(0)>>,
      ekin |-> DblFromInt(5), weight |-> DblFromInt(1), time |-> DblFromInt(3)],
     \* a particle with no PDG code
     [pdgcode |-> 0,
      position |-> <<DblFromInt(70), DblFromInt(71), DblFromInt(72)>>,
      direction |-> <<DblFromInt(1), DblFromInt(0), DblFromInt(0)>>,
      polarisation |-> <<DblFromInt(73), DblFromInt(74), DblFromInt(75)>>,
      ekin |-> DblFromInt(76), weight |-> DblFromInt(77), time |-> DblFromInt(78)],
     \* an excited nucleus: a PDG code PHITS has no code for
     [pdgcode |-> 1000020041,
      position |-> <<DblFromInt(90), DblFromInt(91), DblFromInt(92)>>,
      direction |-> <<DblFromInt(0), DblFromInt(-1), DblFromInt(0)>>,
      polarisation |-> <<DblFromInt(93), DblFromInt(94), DblFromInt(95)>>,
      ekin |-> DblFromInt(96), weight |-> DblFromInt(97), time |-> DblFromInt(98)],
     \* a neutron
     [pdgcode |-> 2112,
      position |-> <<DblFromInt(-4), DblFromInt(0), DblFromInt(6)>>,
      direction |-> <<DblFromInt(0), DblFromInt(1), DblFromInt(0)>>,
      polarisation |-> <<DblFromInt(1), DblFromInt(0), DblFromInt(-1)>>,
      ekin |-> DblFromInt(2), weight |-> DblFromInt(9), time |-> DblFromInt(11)] >>

McplSources == SeqsUpTo(1..Len(McplParticles), MaxParticles)

mcpl_hdr_nparticles(file) == Len(file)

\* conv_code_pdg2phits of phitsread.c: total; 0 for a PDG code that PHITS has
\* no code for, PDG code 0 included
conv_code_pdg2phits(c) ==
  CASE c = 11 -> 12
    [] c = 2112 -> 2
    [] c = 2212 -> 1
    [] c = 22 -> 14
    [] OTHER -> 0

\* phits_error of phitsread.c: prints the message and ends the process
PhitsErrorPc == "exit"

INT32_MAX == 2147483647

-----------------------------------------------------------------------------
(* mcpl2phits (lines 355-444). *)

M2PInit ==
  /\ m_pc = "start"
  /\ use_polarisation \in {0, 1}
  /\ nparticles_limit \in 0..MaxLimit
  /\ m_reclen \in {2, 4, 8}
  /\ fmcpl \in McplSources
  /\ m_pos = 0 /\ used = 0 /\ skipped_nophitstype = 0
  /\ dumpdata = <<>> /\ fout = <<>> /\ m_open = {} /\ m_log = <<>>
  /\ m_nb = <<>> /\ m_ret = -1

\* n particles that PHITS has no code for: excited nuclei and particles of
\* code 0 in turn
Skips(n) == [i \in 1..n |-> IF i % 2 = 1 THEN 3 ELSE 2]

\* long source files: around a hundred particles without a PHITS code, then
\* none, one or three more particles
LongSources ==
  {Skips(n) \o tail : n \in (MaxSkipped - 2)..MaxSkipped,
                      tail \in {<<>>, <<1>>, <<4, 3, 1>>}}

\* a call of mcpl2phits on a long source file
M2PLongInit ==
  /\ m_pc = "start"
  /\ use_polarisation \in {0, 1}
  /\ nparticles_limit \in 0..MaxLimit
  /\ m_reclen \in {2, 4, 8}
  /\ fmcpl \in LongSources
  /\ m_pos = 0 /\ used = 0 /\ skipped_nophitstype = 0
  /\ dumpdata = <<>> /\ fout = <<>> /\ m_open = {} /\ m_log = <<>>
  /\ m_nb = <<>> /\ m_ret = -1

\* a mutant: every marker width is let through
bad_reclen_none(reclen) == FALSE

\* line 358: reclen != 4 && reclen != 8
bad_reclen(reclen) == reclen # 4 /\ reclen # 8

\* lines 358-382: the reclen check, the two opens, the locals
M2PStart ==
  /\ m_pc = "start"
  /\ IF bad_reclen(m_reclen)
     THEN /\ m_pc' = PhitsErrorPc
          /\ m_log' = Append(m_log, <<"ERROR: Reclen parameter", 0>>)
          /\ UNCHANGED <<m_open, dumpdata>>
     ELSE \E fopen_ok \in BOOLEAN :
            /\ m_open' = IF fopen_ok THEN {"fmcpl", "fout"} ELSE {"fmcpl"}
            /\ m_pc' = IF fopen_ok THEN "loop" ELSE PhitsErrorPc
            /\ m_log' = m_log \o
                 << <<"Opened MCPL file", mcpl_hdr_nparticles(fmcpl)>>,
                    <<"Creating output PHITS file", 0>>,
                    IF fopen_ok THEN <<"Initiating particle conversion loop", 0>>
                    ELSE <<"ERROR: Problems opening new PHITS file", 0>> >>
            /\ dumpdata' = IF fopen_ok THEN [i \in 1..13 |-> <<0, 0>>] ELSE dumpdata
  /\ UNCHANGED <<m2pArgs, m_pos, used, skipped_nophitstype, fout, m_nb, m_ret,
                 textVars, wrVars, p2mVars, bigVars, appVars, rtVars, f2bVars>>

\* a mutant: the polarisation fields are left as they are in the buffer
fill_dumpdata_nopol(old, rawtype, mcpl_p) ==
  [old EXCEPT ![1] = DblFromInt(rawtype),
              ![2] = mcpl_p.position[1],
              ![3] = mcpl_p.position[2],
              ![4] = mcpl_p.position[3],
              ![5] = mcpl_p.direction[1],
              ![6] = mcpl_p.direction[2],
              ![7] = mcpl_p.direction[3],
              ![8] = mcpl_p.ekin,
              ![9] = mcpl_p.weight,
              ![10] = DblMul(mcpl_p.time, Dbl1em6)]

\* lines 399-411: the assignments to dumpdata[0..12], old being the buffer
\* as the iteration before left it
fill_dumpdata(old, rawtype, mcpl_p) ==
  [old EXCEPT ![1] = DblFromInt(rawtype),
              ![2] = mcpl_p.position[1],
              ![3] = mcpl_p.position[2],
              ![4] = mcpl_p.position[3],
              ![5] = mcpl_p.direction[1],
              ![6] = mcpl_p.direction[2],
              ![7] = mcpl_p.direction[3],
              ![8] = mcpl_p.ekin,
              ![9] = mcpl_p.weight,
              ![10] = DblMul(mcpl_p.time, Dbl1em6),
              ![11] = mcpl_p.polarisation[1],
              ![12] = mcpl_p.polarisation[2],
              ![13] = mcpl_p.polarisation[3]]

\* a mutant: the polarisation fields are written whatever the flag
record_lbuf_all(use_pol) == 8 * 13

\* a mutant: the two record lengths the wrong way round
record_lbuf_swapped(use_pol) == 8 * (IF use_pol # 0 THEN 10 ELSE 13)

\* line 417: sizeof(double)*(use_polarisation?13:10)
record_lbuf(use_pol) == 8 * (IF use_pol # 0 THEN 13 ELSE 10)

\* a mutant: only a negative code is taken as "no PHITS code"
no_phits_type_neg(rawtype) == rawtype < 0

\* line 386: if (!rawtype)
no_phits_type(rawtype) == rawtype = 0

\* a mutant: the limit is compared with the particles read, not written
limit_reached_read(used_now, skipped, limit) == used_now + skipped = limit

\* line 419: ++used==nparticles_limit, used_now being the incremented count
limit_reached(used_now, skipped, limit) == used_now = limit

\* a mutant: the notice is printed for every skipped particle from the 100th
skip_warnings_renotice(skipped, pdgcode) ==
  (IF skipped <= 100
   THEN <<<<"WARNING: Found PDG code which can not be converted", pdgcode>>>> ELSE <<>>)
  \o (IF skipped >= 100 THEN <<<<"WARNING: Suppressing future warnings", 0>>>> ELSE <<>>)

\* lines 386-395: the warnings of a skipped particle
skip_warnings(skipped, pdgcode) ==
  IF skipped <= 100
  THEN <<<<"WARNING: Found PDG code which can not be converted", pdgcode>>>>
       \o (IF skipped = 100 THEN <<<<"WARNING: Suppressing future warnings", 0>>>>
           ELSE <<>>)
  ELSE <<>>

\* a mutant: the skipped particles are not subtracted
limit_message_noskip(limit, nparticles, skipped, used_now) ==
  LET remaining == nparticles - used_now
  IN IF remaining # 0 THEN <<<<"Output limit reached. Ignoring remaining", remaining>>>>
     ELSE <<>>

\* a mutant: the written particles are not subtracted
limit_message_nowritten(limit, nparticles, skipped, used_now) ==
  LET remaining == nparticles - skipped
  IN IF remaining # 0 THEN <<<<"Output limit reached. Ignoring remaining", remaining>>>>
     ELSE <<>>

\* lines 419-425: the message when the limit is reached
limit_message(limit, nparticles, skipped, used_now) ==
  LET remaining == nparticles - skipped - used_now
  IN IF remaining # 0 THEN <<<<"Output limit reached. Ignoring remaining", remaining>>>>
     ELSE <<>>

\* a mutant: the advisory is printed for every record from that one on
int32_advisory_repeated(used_now) ==
  IF used_now = ToSizeT(INT32_MAX) \/ used_now[3] # 0 \/ used_now[4] # 0 \/ used_now[2] >= 32768
  THEN <<<<"WARNING: Writing more than 2147483647 particles", 0>>>>
  ELSE <<>>

\* lines 413-416: if (used==INT32_MAX), used_now being the count before the
\* write, as limbs
int32_advisory(used_now) ==
  IF used_now = ToSizeT(INT32_MAX)
  THEN <<<<"WARNING: Writing more than 2147483647 particles", 0>>>>
  ELSE <<>>

\* lines 384-428: one iteration of the loop, for the particle mcpl_read
\* returns; assert(rawtype!=0) (line 397) and assert(reclen==8) (line 341)
\* abort the process when they fail
M2PLoop ==
  /\ m_pc = "loop"
  /\ m_pos < Len(fmcpl)
  /\ m_pos' = m_pos + 1
  /\ LET mcpl_p == McplParticles[fmcpl[m_pos + 1]]
         rawtype == conv_code_pdg2phits(mcpl_p.pdgcode)
     IN IF no_phits_type(rawtype)
        THEN /\ skipped_nophitstype' = skipped_nophitstype + 1
             /\ m_log' = m_log \o skip_warnings(skipped_nophitstype + 1, mcpl_p.pdgcode)
             /\ UNCHANGED <<m_pc, used, dumpdata, fout, m_nb>>
        ELSE \E nb \in WriteResults(m_reclen, ToSizeT(record_lbuf(use_polarisation))) :
               LET data == fill_dumpdata(dumpdata, rawtype, mcpl_p)
                   r == IF rawtype = 0
                        THEN [out |-> fout, err |-> "assert", nb |-> <<>>]
                        ELSE
                        phits_writerecord(fout, m_reclen,
                                          ToSizeT(record_lbuf(use_polarisation)),
                                          [unit |-> ArrayBytes(data), len |-> ToSizeT(104)],
                                          nb)
                   warned == int32_advisory(ToSizeT(used))
               IN /\ dumpdata' = IF rawtype = 0 THEN dumpdata ELSE data
                  /\ fout' = r.out
                  /\ m_nb' = r.nb
                  /\ UNCHANGED skipped_nophitstype
                  /\ IF r.err = "assert"
                     THEN /\ m_pc' = "abort"
                          /\ m_log' = m_log \o (IF rawtype = 0 THEN <<>> ELSE warned)
                                       \o <<<<"Assertion failed", 0>>>>
                          /\ UNCHANGED used
                     ELSE IF r.err # "none"
                     THEN /\ m_pc' = PhitsErrorPc
                          /\ m_log' = m_log \o warned \o <<<<"ERROR: write error", 0>>>>
                          /\ UNCHANGED used
                     ELSE /\ used' = used + 1
                          /\ IF limit_reached(used + 1, skipped_nophitstype,
                                              nparticles_limit)
                             THEN /\ m_pc' = "after"
                                  /\ m_log' = m_log \o warned \o
                                       limit_message(nparticles_limit,
                                                     mcpl_hdr_nparticles(fmcpl),
                                                     skipped_nophitstype, used + 1)
                             ELSE /\ m_pc' = "loop"
                                  /\ m_log' = m_log \o warned
  /\ UNCHANGED <<m2pArgs, m_open, m_ret, textVars, wrVars, p2mVars, bigVars, appVars, rtVars, f2bVars>>

\* line 384: mcpl_read returns NULL at the end of the file
M2PEnd ==
  /\ m_pc = "loop"
  /\ m_pos = Len(fmcpl)
  /\ m_pc' = "after"
  /\ UNCHANGED <<m2pArgs, m_pos, used, skipped_nophitstype, dumpdata, fout, m_open,
                 m_log, m_nb, m_ret, textVars, wrVars, p2mVars, bigVars, appVars, rtVars, f2bVars>>

\* lines 430-441: the aggregate warning, the two closes, the return
M2PFinish ==
  /\ m_pc = "after"
  /\ m_log' = m_log \o <<<<"Ending particle conversion loop", 0>>>>
       \o (IF skipped_nophitstype # 0
           THEN <<<<"WARNING: Ignored particles", skipped_nophitstype>>>> ELSE <<>>)
       \o <<<<"Created with particles", used>>>>
  /\ m_open' = {}
  /\ m_ret' = 1
  /\ m_pc' = "done"
  /\ UNCHANGED <<m2pArgs, m_pos, used, skipped_nophitstype, dumpdata, fout, m_nb,
                 textVars, wrVars, p2mVars, bigVars, appVars, rtVars, f2bVars>>

-----------------------------------------------------------------------------
(* The loop of mcpl2phits (lines 384-441) late in a long run.  The counter *)
(* used (long long), the limit (long) and the particle count of the file   *)
(* (uint64_t) are four 16-bit limbs, as a size_t is.  The run is taken up  *)
(* at the top of the loop after b_used0 records were read and written,     *)
(* none skipped and the limit not reached; b_src holds the records still   *)
(* to come, b_out and b_log what is written and printed from there on.     *)

LLAdd(a, b) ==
  LET s1 == a[1] + b[1]
      s2 == a[2] + b[2] + s1 \div 65536
      s3 == a[3] + b[3] + s2 \div 65536
      s4 == a[4] + b[4] + s3 \div 65536
  IN <<s1 % 65536, s2 % 65536, s3 % 65536, s4 % 65536>>

LLSub(a, b) ==
  LET d1 == a[1] - b[1]
      d2 == a[2] - b[2] - (IF d1 < 0 THEN 1 ELSE 0)
      d3 == a[3] - b[3] - (IF d2 < 0 THEN 1 ELSE 0)
      d4 == a[4] - b[4] - (IF d3 < 0 THEN 1 ELSE 0)
  IN <<d1 % 65536, d2 % 65536, d3 % 65536, d4 % 65536>>

LLLess(a, b) ==
  \E k \in 1..4 : a[k] < b[k] /\ \A j \in (k + 1)..4 : a[j] = b[j]

\* the values of used the run is taken up at
BigStarts == {ToSizeT(0), ToSizeT(INT32_MAX - 2)}

\* limits: none, INT32_MAX and INT32_MAX + 2 (a long of 64 bits)
BigLimits == {ToSizeT(0), ToSizeT(INT32_MAX), LLAdd(ToSizeT(INT32_MAX), ToSizeT(2))}

BigInit ==
  /\ b_pc = "loop"
  /\ b_used0 \in BigStarts
  /\ b_limit \in BigLimits
  /\ b_limit = ToSizeT(0) \/ LLLess(b_used0, b_limit)
  /\ b_reclen \in {4, 8}
  /\ b_pol \in {0, 1}
  /\ b_src \in SeqsUpTo({1, 3}, MaxTail)
  /\ b_pos = 0 /\ b_used = b_used0 /\ b_skipped = 0
  /\ b_out = <<>> /\ b_log = <<>> /\ b_nb = <<>>

\* lines 419-425 with the counters at full width
big_limit_message(limit, nparticles, skipped, used_now) ==
  LET remaining == LLSub(LLSub(nparticles, ToSizeT(skipped)), used_now)
  IN IF remaining # ToSizeT(0)
     THEN <<<<"Output limit reached. Ignoring remaining", remaining>>>>
     ELSE <<>>

\* lines 384-428
BigLoop ==
  /\ b_pc = "loop"
  /\ b_pos < Len(b_src)
  /\ b_pos' = b_pos + 1
  /\ LET mcpl_p == McplParticles[b_src[b_pos + 1]]
         rawtype == conv_code_pdg2phits(mcpl_p.pdgcode)
         lbuf == ToSizeT(record_lbuf(b_pol))
     IN IF no_phits_type(rawtype)
        THEN /\ b_skipped' = b_skipped + 1
             /\ b_log' = b_log \o skip_warnings(b_skipped + 1, mcpl_p.pdgcode)
             /\ UNCHANGED <<b_pc, b_used, b_out, b_nb>>
        ELSE \E nb \in WriteResults(b_reclen, lbuf) :
               LET data == fill_dumpdata([i \in 1..13 |-> <<0, 0>>], rawtype, mcpl_p)
                   r == phits_writerecord(b_out, b_reclen, lbuf,
                                          [unit |-> ArrayBytes(data), len |-> ToSizeT(104)],
                                          nb)
                   warned == int32_advisory(b_used)
               IN /\ b_out' = r.out
                  /\ b_nb' = r.nb
                  /\ UNCHANGED b_skipped
                  /\ IF r.err # "none"
                     THEN /\ b_pc' = PhitsErrorPc
                          /\ b_log' = b_log \o warned \o <<<<"ERROR: write error", 0>>>>
                          /\ UNCHANGED b_used
                     ELSE /\ b_used' = LLAdd(b_used, ToSizeT(1))
                          /\ IF limit_reached(LLAdd(b_used, ToSizeT(1)), b_skipped, b_limit)
                             THEN /\ b_pc' = "after"
                                  /\ b_log' = b_log \o warned \o
                                       big_limit_message(
                                         b_limit, LLAdd(b_used0, ToSizeT(Len(b_src))),
                                         b_skipped, LLAdd(b_used, ToSizeT(1)))
                             ELSE /\ b_pc' = "loop"
                                  /\ b_log' = b_log \o warned
  /\ UNCHANGED <<b_used0, b_limit, b_reclen, b_pol, b_src,
                 textVars, wrVars, m2pVars, p2mVars, appVars, rtVars, f2bVars>>

\* line 384: mcpl_read returns NULL
BigEnd ==
  /\ b_pc = "loop"
  /\ b_pos = Len(b_src)
  /\ b_pc' = "after"
  /\ UNCHANGED <<b_used0, b_limit, b_reclen, b_pol, b_src, b_pos, b_used, b_skipped,
                 b_out, b_log, b_nb, textVars, wrVars, m2pVars, p2mVars, appVars, rtVars, f2bVars>>

\* lines 430-441
BigFinish ==
  /\ b_pc = "after"
  /\ b_log' = b_log \o <<<<"Ending particle conversion loop", 0>>>>
       \o (IF b_skipped # 0 THEN <<<<"WARNING: Ignored particles", b_skipped>>>> ELSE <<>>)
       \o <<<<"Created with particles", b_used>>>>
  /\ b_pc' = "done"
  /\ UNCHANGED <<b_used0, b_limit, b_reclen, b_pol, b_src, b_pos, b_used, b_skipped,
                 b_out, b_nb, textVars, wrVars, m2pVars, p2mVars, appVars, rtVars, f2bVars>>

-----------------------------------------------------------------------------
(* Ancillary files and phitsmcpl_file2buf (lines 65-121).                  *)
(*                                                                         *)
(* A file on disk is [can_open, seek_end, rewind, read_ok, size, unit]:    *)
(* whether fopen, fseek(SEEK_END), fseek(SEEK_SET) and fread succeed on    *)
(* it, its size in bytes and its content, the unsigned chars of unit       *)
(* repeated up to size.  A buffer is [unit, len] likewise.                 *)

Dump == <<100, 117, 109, 112>>

AncillaryFiles ==
  << \* 1: no such file
     [can_open |-> FALSE, seek_end |-> TRUE, rewind |-> TRUE, read_ok |-> TRUE,
      size |-> 60, unit |-> Dump \o <<32>>],
     \* 2: 49 bytes of text with "dump"
     [can_open |-> TRUE, seek_end |-> TRUE, rewind |-> TRUE, read_ok |-> TRUE,
      size |-> 49, unit |-> Dump \o <<32>>],
     \* 3: 50 bytes of text with "dump"
     [can_open |-> TRUE, seek_end |-> TRUE, rewind |-> TRUE, read_ok |-> TRUE,
      size |-> 50, unit |-> Dump \o <<32>>],
     \* 4: 100 MiB of text with "dump"
     [can_open |-> TRUE, seek_end |-> TRUE, rewind |-> TRUE, read_ok |-> TRUE,
      size |-> 104857600, unit |-> Dump \o <<10>>],
     \* 5: 100 MiB and one byte
     [can_open |-> TRUE, seek_end |-> TRUE, rewind |-> TRUE, read_ok |-> TRUE,
      size |-> 104857601, unit |-> Dump \o <<32>>],
     \* 6: a file that cannot be rewound
     [can_open |-> TRUE, seek_end |-> TRUE, rewind |-> FALSE, read_ok |-> TRUE,
      size |-> 60, unit |-> Dump \o <<32>>],
     \* 7: a file that cannot be read
     [can_open |-> TRUE, seek_end |-> TRUE, rewind |-> TRUE, read_ok |-> FALSE,
      size |-> 60, unit |-> Dump \o <<32>>],
     \* 8: "dump" among bytes that are not text
     [can_open |-> TRUE, seek_end |-> TRUE, rewind |-> TRUE, read_ok |-> TRUE,
      size |-> 60, unit |-> Dump \o <<127>>],
     \* 9: text without "dump"
     [can_open |-> TRUE, seek_end |-> TRUE, rewind |-> TRUE, read_ok |-> TRUE,
      size |-> 60, unit |-> <<100, 117, 109, 98, 10>>],
     \* 10: 10 bytes of text with "dump" on a stream that cannot seek to its end
     [can_open |-> TRUE, seek_end |-> FALSE, rewind |-> TRUE, read_ok |-> TRUE,
      size |-> 10, unit |-> Dump \o <<32>>] >>

NullBuf == [unit |-> <<>>, len |-> 0]

\* the bytes that occur in a buffer, in the order of their first occurrence
BufferBytes(buf) ==
  IF buf.len < Len(buf.unit) THEN SubSeq(buf.unit, 1, buf.len) ELSE buf.unit

\* ret, *buf and *lbuf as the caller gets them; open tells whether the FILE
\* the call opened is still open when it returns; msg is what it printed
phitsmcpl_file2buf(file, maxsize, require_text) ==
  LET failure(msg, open) ==
        [ret |-> 0, buf |-> NullBuf, lbuf |-> 0, open |-> open, msg |-> msg]
      bbuf_size_guess == ~file.seek_end
  IN IF ~file.can_open THEN failure("Error: could not open file", FALSE)
     ELSE IF ~bbuf_size_guess /\ file.size < 50
       THEN failure("Error: file is suspiciously short", TRUE)
     ELSE IF ~bbuf_size_guess /\ file.size > 104857600
       THEN failure("Error: file is larger than", TRUE)
     ELSE IF ~file.rewind THEN failure("Error: Could not rewind file", TRUE)
     ELSE IF ~bbuf_size_guess /\ ~file.read_ok
       THEN failure("Error: file read-error", TRUE)
     ELSE LET bbuf_size ==
                IF ~bbuf_size_guess THEN file.size
                ELSE IF ~file.read_ok THEN 0
                ELSE IF file.size < maxsize THEN file.size ELSE maxsize
              bbuf == [unit |-> file.unit, len |-> bbuf_size]
          IN IF require_text # 0
                /\ phitsmcpl_buf_is_text(Len(BufferBytes(bbuf)), BufferBytes(bbuf)) = 0
             THEN failure("Error: file does not appear to be a text file", FALSE)
             ELSE [ret |-> 1, buf |-> bbuf, lbuf |-> bbuf_size, open |-> FALSE,
                   msg |-> ""]

\* whether "dump" occurs among the len bytes of the buffer
contains_dump(buf) ==
  LET n == Len(buf.unit)
      last == IF buf.len < 2 * n THEN buf.len ELSE 2 * n
  IN n > 0 /\ \E i \in 0..(last - 4) :
               \A k \in 0..3 : buf.unit[((i + k) % n) + 1] = Dump[k + 1]

\* strstr((const char*)buf, "dump") (lines 154, 167).  The buffer is not
\* NUL-terminated: when "dump" is not among its bytes strstr reads past its
\* end, and may find the word there, return NULL or fault.
strstr_dump(buf) ==
  IF contains_dump(buf) THEN {"found"} ELSE {"found", "NULL", "fault"}

-----------------------------------------------------------------------------
(* phitsmcpl_file2buf (lines 65-121), statement by statement.              *)
(*                                                                         *)
(* f_buf is the caller's *buf: "indeterminate" before the call (lines 147  *)
(* and 162 declare it without a value), then "NULL" or "bbuf", the address *)
(* malloc returned.  f_lbuf is the caller's *lbuf, -1 while indeterminate. *)
(* f_heap is the block of line 94: "none" before malloc, "live", "freed",  *)
(* or "null" when malloc returned NULL.  The bytes of the block are the    *)
(* first f_got bytes of the file, in order.                                *)

\* the sizes of the files on disk, around the limits of lines 81 and 85
F2BSizes == {0, 49, 50, 60, 104857600, 104857601}

F2BFiles ==
  [can_open : BOOLEAN, seek_end : BOOLEAN, rewind : BOOLEAN, read_ok : BOOLEAN,
   size : F2BSizes, unit : {Dump \o <<32>>, Dump \o <<127>>}]

\* the call as lines 149 and 164 make it, and with require_text off
F2BInit ==
  /\ f_pc = "entry"
  /\ f_file \in F2BFiles
  /\ f_maxsize = 104857600
  /\ f_require_text \in {0, 1}
  /\ f_buf = "indeterminate" /\ f_lbuf = -1
  /\ f_bbuf_size = 0 /\ f_bbuf_size_guess = 0 /\ f_left = 0 /\ f_got = 0 /\ f_short = 0
  /\ f_heap = "none" /\ f_open = FALSE /\ f_log = "" /\ f_ret = -1

F2BOthers == <<textVars, wrVars, m2pVars, p2mVars, bigVars, appVars, rtVars>>

\* return 0 after printing msg
F2BReturn0(msg) ==
  /\ f_log' = msg
  /\ f_ret' = 0
  /\ f_pc' = "returned"

\* lines 66-72: the out-parameters are cleared, then fopen
F2BOpen ==
  /\ f_pc = "entry"
  /\ f_buf' = "NULL"
  /\ f_lbuf' = 0
  /\ IF ~f_file.can_open
     THEN /\ F2BReturn0("Error: could not open file")
          /\ UNCHANGED f_open
     ELSE /\ f_open' = TRUE
          /\ f_pc' = "size"
          /\ UNCHANGED <<f_log, f_ret>>
  /\ UNCHANGED <<f_file, f_maxsize, f_require_text, f_bbuf_size, f_bbuf_size_guess,
                 f_left, f_got, f_short, f_heap, F2BOthers>>

\* lines 74-89: f_bbuf_size is maxsize and a guess unless fseek(SEEK_END) works,
\* and then it is the size of the file, checked against 50 and 104857600
F2BSize ==
  /\ f_pc = "size"
  /\ IF f_file.seek_end
     THEN /\ f_bbuf_size' = f_file.size
          /\ f_bbuf_size_guess' = 0
          /\ IF f_file.size < 50
             THEN F2BReturn0("Error: file is suspiciously short")
             ELSE IF f_file.size > 104857600
             THEN F2BReturn0("Error: file is larger than")
             ELSE f_pc' = "rewind" /\ UNCHANGED <<f_log, f_ret>>
     ELSE /\ f_bbuf_size' = f_maxsize
          /\ f_bbuf_size_guess' = 1
          /\ f_pc' = "rewind"
          /\ UNCHANGED <<f_log, f_ret>>
  /\ UNCHANGED <<f_file, f_maxsize, f_require_text, f_buf, f_lbuf,
                 f_left, f_got, f_short, f_heap, f_open, F2BOthers>>

\* lines 90-93: fseek(SEEK_SET)
F2BRewind ==
  /\ f_pc = "rewind"
  /\ IF ~f_file.rewind
     THEN F2BReturn0("Error: Could not rewind file")
     ELSE f_pc' = "malloc" /\ UNCHANGED <<f_log, f_ret>>
  /\ UNCHANGED <<f_file, f_maxsize, f_require_text, f_buf, f_lbuf, f_bbuf_size,
                 f_bbuf_size_guess, f_left, f_got, f_short, f_heap, f_open, F2BOthers>>

\* lines 94-97: malloc, whose result is not tested, and the loop is entered
\* when left is not 0
F2BMalloc ==
  /\ f_pc = "malloc"
  /\ \E got_memory \in BOOLEAN : f_heap' = IF got_memory THEN "live" ELSE "null"
  /\ f_left' = f_bbuf_size
  /\ f_got' = 0
  /\ f_pc' = IF f_bbuf_size = 0 THEN "close" ELSE "read"
  /\ UNCHANGED <<f_file, f_maxsize, f_require_text, f_buf, f_lbuf, f_bbuf_size,
                 f_bbuf_size_guess, f_short, f_open, f_log, f_ret, F2BOthers>>

\* what fread(bbuf_iter, 1, left, file) may return with the stream at byte
\* got of file: all it asks for or all that is left in the file; on a file
\* that cannot be read a short count, and in the end 0
fread_counts(file, got, left, short) ==
  LET rest == file.size - got
      most == IF left < rest THEN left ELSE rest
  IN IF file.read_ok THEN {most}
     ELSE {0} \cup (IF short < MaxShortReads /\ most >= 2 THEN {most \div 2} ELSE {})

\* lines 97-110: one turn of the read loop.  fread into the NULL of a failed
\* malloc is undefined: a fault, or the read fails and 0 is returned
F2BRead ==
  /\ f_pc = "read"
  /\ f_left # 0
  /\ \E outcome \in (IF f_heap = "null" THEN {"fault", "fread"} ELSE {"fread"}) :
       IF outcome = "fault"
       THEN /\ f_pc' = "fault"
            /\ UNCHANGED <<f_bbuf_size, f_left, f_got, f_short, f_heap, f_log, f_ret>>
       ELSE \E nb \in (IF f_heap = "null" THEN {0}
                       ELSE fread_counts(f_file, f_got, f_left, f_short)) :
              IF f_bbuf_size_guess # 0 /\ nb = 0
              THEN /\ f_bbuf_size' = f_bbuf_size - f_left
                   /\ f_pc' = "close"
                   /\ UNCHANGED <<f_left, f_got, f_short, f_heap, f_log, f_ret>>
              ELSE IF nb = 0 \/ nb > f_left
              THEN /\ F2BReturn0("Error: file read-error")
                   /\ f_heap' = IF f_heap = "live" THEN "freed" ELSE f_heap
                   /\ UNCHANGED <<f_bbuf_size, f_left, f_got, f_short>>
              ELSE /\ f_got' = f_got + nb
                   /\ f_left' = f_left - nb
                   /\ f_short' = IF nb < f_left /\ nb < f_file.size - f_got
                                 THEN f_short + 1 ELSE f_short
                   /\ f_pc' = IF f_left - nb = 0 THEN "close" ELSE "read"
                   /\ UNCHANGED <<f_bbuf_size, f_heap, f_log, f_ret>>
  /\ UNCHANGED <<f_file, f_maxsize, f_require_text, f_buf, f_lbuf,
                 f_bbuf_size_guess, f_open, F2BOthers>>

\* lines 111-120: fclose, the text test on the f_bbuf_size bytes of bbuf, and
\* the only assignments of bbuf and f_bbuf_size to *buf and *lbuf
F2BClose ==
  /\ f_pc = "close"
  /\ f_open' = FALSE
  /\ LET bbuf == [unit |-> f_file.unit, len |-> f_bbuf_size]
     IN IF f_require_text # 0
           /\ phitsmcpl_buf_is_text(Len(BufferBytes(bbuf)), BufferBytes(bbuf)) = 0
        THEN /\ F2BReturn0("Error: file does not appear to be a text file")
             /\ f_heap' = IF f_heap = "live" THEN "freed" ELSE f_heap
             /\ UNCHANGED <<f_buf, f_lbuf>>
        ELSE /\ f_buf' = IF f_heap = "null" THEN "NULL" ELSE "bbuf"
             /\ f_lbuf' = f_bbuf_size
             /\ f_ret' = 1
             /\ f_pc' = "returned"
             /\ UNCHANGED <<f_heap, f_log>>
  /\ UNCHANGED <<f_file, f_maxsize, f_require_text, f_bbuf_size, f_bbuf_size_guess,
                 f_left, f_got, f_short, F2BOthers>>

-----------------------------------------------------------------------------
(* The PHITS side, as phitsread.h gives it: a dump file is the sequence of *)
(* its records (here their places in PhitsRecords), and                    *)
(* phits_load_particle returns the next one as a particle, or NULL.        *)

\* conv_code_phits2pdg of phitsread.c: 0 for a PHITS code with no PDG code
conv_code_phits2pdg(c) ==
  CASE c = 12 -> 11
    [] c = 2 -> 2112
    [] c = 1 -> 2212
    [] c = 14 -> 22
    [] OTHER -> 0

PhitsRecords ==
  << \* an electron
     [rawtype |-> 12,
      x |-> DblFromInt(1), y |-> DblFromInt(2), z |-> DblFromInt(3),
      dirx |-> DblFromInt(0), diry |-> DblFromInt(0), dirz |-> DblFromInt(1),
      polx |-> DblFromInt(0), poly |-> DblFromInt(1), polz |-> DblFromInt(0),
      time |-> DblFromInt(3), weight |-> DblFromInt(1), ekin |-> DblFromInt(5)],
     \* a particle of a kind with no PDG code
     [rawtype |-> 99,
      x |-> DblFromInt(70), y |-> DblFromInt(71), z |-> DblFromInt(72),
      dirx |-> DblFromInt(1), diry |-> DblFromInt(0), dirz |-> DblFromInt(0),
      polx |-> DblFromInt(73), poly |-> DblFromInt(74), polz |-> DblFromInt(75),
      time |-> DblFromInt(78), weight |-> DblFromInt(77), ekin |-> DblFromInt(76)],
     \* a neutron
     [rawtype |-> 2,
      x |-> DblFromInt(-4), y |-> DblFromInt(0), z |-> DblFromInt(6),
      dirx |-> DblFromInt(0), diry |-> DblFromInt(1), dirz |-> DblFromInt(0),
      polx |-> DblFromInt(1), poly |-> DblFromInt(0), polz |-> DblFromInt(-1),
      time |-> DblFromInt(11), weight |-> DblFromInt(9), ekin |-> DblFromInt(2)] >>

PhitsSources == SeqsUpTo(1..Len(PhitsRecords), MaxParticles)

\* the particle of record rec: its PDG code set from its raw code, its
\* polarisation zero in a file without polarisation
phits_load_particle(rec, haspol) ==
  [rawtype |-> rec.rawtype, pdgcode |-> conv_code_phits2pdg(rec.rawtype),
   x |-> rec.x, y |-> rec.y, z |-> rec.z,
   dirx |-> rec.dirx, diry |-> rec.diry, dirz |-> rec.dirz,
   polx |-> IF haspol THEN rec.polx ELSE <<0, 0>>,
   poly |-> IF haspol THEN rec.poly ELSE <<0, 0>>,
   polz |-> IF haspol THEN rec.polz ELSE <<0, 0>>,
   time |-> rec.time, weight |-> rec.weight, ekin |-> rec.ekin]

\* mcpl_get_empty_particle of mcpl.h: the slot, zeroed
mcpl_get_empty_particle ==
  [pdgcode |-> 0,
   position |-> <<<<0, 0>>, <<0, 0>>, <<0, 0>>>>,
   direction |-> <<<<0, 0>>, <<0, 0>>, <<0, 0>>>>,
   polarisation |-> <<<<0, 0>>, <<0, 0>>, <<0, 0>>>>,
   ekin |-> <<0, 0>>, weight |-> <<0, 0>>, time |-> <<0, 0>>,
   userflags |-> 0]

\* mcpl_add_particle of mcpl.h: the particle is appended to the output
mcpl_add_particle(fh, particle) ==
  [fh EXCEPT !.particles = Append(@, particle)]

\* mcpl_hdr_add_data of mcpl.h: a named blob is added to the header
mcpl_hdr_add_data(fh, key, ldata, data) ==
  [fh EXCEPT !.data = Append(@, [key |-> key, ldata |-> ldata, data |-> data])]

-----------------------------------------------------------------------------
(* phits2mcpl2 (lines 128-215). *)

P2MInit ==
  /\ p_pc = "start"
  /\ opt_dp \in {0, 1}
  /\ opt_gzip \in {0, 1}
  /\ inputdeckfile \in 0..Len(AncillaryFiles)
  /\ dumpsummaryfile \in 0..Len(AncillaryFiles)
  /\ phitsdump \in PhitsSources
  /\ has_polarisation \in BOOLEAN
  /\ p_pos = 0 /\ mcplfh = <<>> /\ mcpl_particle = <<>>
  /\ p_open = {} /\ p_log = <<>> /\ p_ret = -1

\* lines 133-144: the two opens and the header
P2MStart ==
  /\ p_pc = "start"
  /\ p_open' = {"phitsdumpfile", "mcplfile"}
  /\ mcplfh' = [srcname |-> "PHITS",
                comments |-> <<"Converted from PHITS with phits2mcpl">>,
                doubleprec |-> opt_dp # 0,
                polarisation |-> has_polarisation,
                data |-> <<>>,
                particles |-> <<>>]
  /\ p_pc' = "inputdeck"
  /\ UNCHANGED <<p2mArgs, p_pos, mcpl_particle, p_log, p_ret, textVars, wrVars, m2pVars, bigVars, appVars, rtVars, f2bVars>>

\* a mutant: a file without "dump" is not embedded and the conversion goes on
ancillary_verdict_lenient(ret, found) ==
  IF ret = 0 THEN "return 0" ELSE IF found # "found" THEN "go on" ELSE "embed"

\* lines 149-157 and 164-170: what becomes of an ancillary file, given what
\* phitsmcpl_file2buf and strstr returned
ancillary_verdict(ret, found) ==
  IF ret = 0 THEN "return 0" ELSE IF found # "found" THEN "return 0" ELSE "embed"

\* lines 146-160 and 161-173: one ancillary file, NULL or loaded, checked and
\* embedded under key
Ancillary(at, filename, key, handle, message, next) ==
  /\ p_pc = at
  /\ IF filename = 0
     THEN /\ p_pc' = next
          /\ UNCHANGED <<mcplfh, p_open, p_log, p_ret>>
     ELSE LET r == phitsmcpl_file2buf(AncillaryFiles[filename], 104857600, 1)
              printed == IF r.msg = "" THEN p_log ELSE Append(p_log, <<r.msg, filename>>)
          IN /\ p_open' = IF r.open THEN p_open \cup {handle} ELSE p_open
             /\ \E found \in (IF r.ret = 0 THEN {"not called"} ELSE strstr_dump(r.buf)) :
                  IF found = "fault"
                  THEN /\ p_pc' = "fault"
                       /\ p_log' = printed
                       /\ UNCHANGED <<mcplfh, p_ret>>
                  ELSE LET verdict == ancillary_verdict(r.ret, found)
                       IN /\ p_pc' = IF verdict = "return 0" THEN "returned" ELSE next
                          /\ p_ret' = IF verdict = "return 0" THEN 0 ELSE p_ret
                          /\ p_log' = IF r.ret # 0 /\ found # "found"
                                      THEN Append(printed, <<message, filename>>)
                                      ELSE printed
                          /\ mcplfh' = IF verdict = "embed"
                                       THEN mcpl_hdr_add_data(mcplfh, key, r.lbuf, r.buf)
                                       ELSE mcplfh
  /\ UNCHANGED <<p2mArgs, p_pos, mcpl_particle, textVars, wrVars, m2pVars, bigVars, appVars, rtVars, f2bVars>>

P2MInputDeck ==
  Ancillary("inputdeck", inputdeckfile, "phits_input_deck", "inputdeckfile",
            "Error: specified configuration file looks invalid", "dumpsummary")

P2MDumpSummary ==
  Ancillary("dumpsummary", dumpsummaryfile, "phits_dump_summary_file", "dumpsummaryfile",
            "Error: specified dump summary file looks invalid", "loop")

\* a mutant: the raw PHITS code is tested in place of the PDG code
no_pdgcode_raw(ptcl) == ptcl.rawtype = 0

\* line 179: if (!p->pdgcode)
no_pdgcode(ptcl) == ptcl.pdgcode = 0

\* lines 183-195: the assignments to the fields of the slot, slot being the
\* particle as the iteration before left it
fill_mcpl_particle(slot, ptcl) ==
  [slot EXCEPT !.pdgcode = ptcl.pdgcode,
               !.position = <<ptcl.x, ptcl.y, ptcl.z>>,
               !.direction = <<ptcl.dirx, ptcl.diry, ptcl.dirz>>,
               !.polarisation = <<ptcl.polx, ptcl.poly, ptcl.polz>>,
               !.time = DblMul(ptcl.time, Dbl1e6),
               !.weight = ptcl.weight,
               !.ekin = ptcl.ekin]

\* lines 175-197: the slot is fetched on the way into the loop; one
\* iteration for the particle phits_load_particle returns
P2MLoop ==
  /\ p_pc = "loop"
  /\ p_pos < Len(phitsdump)
  /\ p_pos' = p_pos + 1
  /\ LET ptcl == phits_load_particle(PhitsRecords[phitsdump[p_pos + 1]], has_polarisation)
         slot == IF p_pos = 0 /\ mcpl_particle = <<>> THEN mcpl_get_empty_particle
                 ELSE mcpl_particle
     IN IF no_pdgcode(ptcl)
        THEN /\ p_log' = Append(p_log, <<"Warning: ignored particle with no PDG code",
                                         ptcl.rawtype>>)
             /\ mcpl_particle' = slot
             /\ UNCHANGED mcplfh
        ELSE /\ mcpl_particle' = fill_mcpl_particle(slot, ptcl)
             /\ mcplfh' = mcpl_add_particle(mcplfh, fill_mcpl_particle(slot, ptcl))
             /\ UNCHANGED p_log
  /\ UNCHANGED <<p_pc, p2mArgs, p_open, p_ret, textVars, wrVars, m2pVars, bigVars, appVars, rtVars, f2bVars>>

\* line 178 with phits_load_particle returning NULL, and lines 199-214: the
\* output is closed, gzipped or not, the dump file is closed
P2MFinish ==
  /\ p_pc = "loop"
  /\ p_pos = Len(phitsdump)
  /\ \E did_gzip \in (IF opt_gzip # 0 THEN {0, 1} ELSE {0}) :
       p_log' = Append(p_log, <<"Created", did_gzip>>)
  /\ p_open' = p_open \ {"phitsdumpfile", "mcplfile"}
  /\ p_ret' = 1
  /\ p_pc' = "returned"
  /\ UNCHANGED <<p2mArgs, p_pos, mcplfh, mcpl_particle, textVars, wrVars, m2pVars, bigVars, appVars, rtVars, f2bVars>>

-----------------------------------------------------------------------------
(* One particle taken through both converters: mcpl2phits writes it as a   *)
(* record of 13 fields with 4-byte markers (lines 399-417), the PHITS      *)
(* reader reads the record back and phits2mcpl2 fills the MCPL particle    *)
(* from it (lines 183-196).                                                *)

RECURSIVE Pow2(_)
Pow2(n) == IF n = 0 THEN 1 ELSE 2 * Pow2(n - 1)

\* the conversion of a double of integral value to long
DblToInt(x) ==
  IF x[1] = 0 THEN 0
  ELSE IF x[2] >= 0 THEN x[1] * Pow2(x[2])
  ELSE IF x[1] < 0 THEN -((-x[1]) \div Pow2(-x[2]))
  ELSE x[1] \div Pow2(-x[2])

\* the double held by bytes 8(i-1)+1..8i of a payload
FieldOf(payload, i) == <<payload[8 * (i - 1) + 1][2], payload[8 * (i - 1) + 1][3]>>

\* the record of a PHITS dump file holding one record of 13 fields, as the
\* reader of phitsread.c takes it from the payload
phits_read_record(file) ==
  LET payload == file[2].unit
  IN [rawtype |-> DblToInt(FieldOf(payload, 1)),
      x |-> FieldOf(payload, 2), y |-> FieldOf(payload, 3), z |-> FieldOf(payload, 4),
      dirx |-> FieldOf(payload, 5), diry |-> FieldOf(payload, 6),
      dirz |-> FieldOf(payload, 7),
      ekin |-> FieldOf(payload, 8), weight |-> FieldOf(payload, 9),
      time |-> FieldOf(payload, 10),
      polx |-> FieldOf(payload, 11), poly |-> FieldOf(payload, 12),
      polz |-> FieldOf(payload, 13)]

\* the particles taken through: the electron and the neutron of
\* McplParticles at times from -MaxTime to MaxTime
RTParticles ==
  {[McplParticles[k] EXCEPT !.time = DblFromInt(t)] : k \in {1, 4}, t \in (-MaxTime)..MaxTime}

RTInit ==
  /\ rt_pc = "mcpl"
  /\ rt_particle \in RTParticles
  /\ rt_record = <<>>
  /\ rt_back = <<>>

\* mcpl2phits on a file of this one particle, with polarisation
RTToPhits ==
  /\ rt_pc = "mcpl"
  /\ LET rawtype == conv_code_pdg2phits(rt_particle.pdgcode)
         data == fill_dumpdata([i \in 1..13 |-> <<0, 0>>], rawtype, rt_particle)
         lbuf == ToSizeT(record_lbuf(1))
     IN rt_record' = phits_writerecord(<<>>, 4, lbuf,
                                       [unit |-> ArrayBytes(data), len |-> ToSizeT(104)],
                                       <<ToSizeT(4), lbuf, ToSizeT(4)>>).out
  /\ rt_pc' = "phits"
  /\ UNCHANGED <<rt_particle, rt_back, textVars, wrVars, m2pVars, p2mVars, bigVars, appVars, f2bVars>>

\* phits2mcpl2 on the file mcpl2phits wrote
RTToMcpl ==
  /\ rt_pc = "phits"
  /\ LET ptcl == phits_load_particle(phits_read_record(rt_record), TRUE)
     IN rt_back' = fill_mcpl_particle(mcpl_get_empty_particle, ptcl)
  /\ rt_pc' = "back"
  /\ UNCHANGED <<rt_particle, rt_record, textVars, wrVars, m2pVars, p2mVars, bigVars, appVars, f2bVars>>

-----------------------------------------------------------------------------
(* The command-line tools (lines 217-325 and 447-574).  A string is the    *)
(* sequence of its characters; a const char* is <<>> for NULL and <<s>>    *)
(* for a pointer to the string s.  args holds argv[1..argc-1].             *)

OptH == <<"-", "h">>
OptHelp == <<"-", "-", "h", "e", "l", "p">>
OptC == <<"-", "c">>
OptS == <<"-", "s">>
OptD == <<"-", "d">>
OptDouble == <<"-", "-", "d", "o", "u", "b", "l", "e">>
OptN == <<"-", "n">>
OptNogzip == <<"-", "-", "n", "o", "g", "z", "i", "p">>
OutputMcpl == <<"o", "u", "t", "p", "u", "t", ".", "m", "c", "p", "l">>
PhitsDmp == <<"p", "h", "i", "t", "s", ".", "d", "m", "p">>

\* argv[i][0]=='-'
starts_with_dash(a) == a # <<>> /\ a[1] = "-"

\* a mutant: equal names are let through
identical_files_never(infile, outfile) == FALSE

\* line 308: strcmp(*infile,*outfile)==0
identical_files(infile, outfile) == infile = outfile

\* the outcome of a parse: exit is the status the process exits with, or -1
\* when the parse returns to its caller; msg is what was printed
ParseExit(status, msg) == [exit |-> status, msg |-> msg, st |-> <<>>]

\* lines 228-301: the loop over the arguments, from argument i on
RECURSIVE phits2mcpl_parse_loop(_, _, _)
phits2mcpl_parse_loop(args, i, st) ==
  IF i > Len(args) THEN [exit |-> -1, msg |-> "", st |-> st]
  ELSE LET a == args[i]
       IN IF a = <<>> THEN phits2mcpl_parse_loop(args, i + 1, st)
          ELSE IF a = OptH \/ a = OptHelp THEN ParseExit(0, "Usage")
          ELSE IF a = OptC
            THEN IF i = Len(args) \/ starts_with_dash(args[i + 1])
                 THEN ParseExit(1, "Error: Missing argument for -c")
                 ELSE IF st.cfgfile # <<>>
                 THEN ParseExit(1, "Error: -c specified more than once")
                 ELSE phits2mcpl_parse_loop(args, i + 2,
                                            [st EXCEPT !.cfgfile = <<args[i + 1]>>])
          ELSE IF a = OptS
            THEN IF i = Len(args) \/ starts_with_dash(args[i + 1])
                 THEN ParseExit(1, "Error: Missing argument for -s")
                 ELSE IF st.dumpsummaryfile # <<>>
                 THEN ParseExit(1, "Error: -s specified more than once")
                 ELSE phits2mcpl_parse_loop(args, i + 2,
                                            [st EXCEPT !.dumpsummaryfile = <<args[i + 1]>>])
          ELSE IF a = OptD \/ a = OptDouble
            THEN phits2mcpl_parse_loop(args, i + 1, [st EXCEPT !.double_prec = 1])
          ELSE IF a = OptN \/ a = OptNogzip
            THEN phits2mcpl_parse_loop(args, i + 1, [st EXCEPT !.do_gzip = 0])
          ELSE IF starts_with_dash(a) THEN ParseExit(1, "Error: Unknown argument")
          ELSE IF st.infile = <<>>
            THEN phits2mcpl_parse_loop(args, i + 1, [st EXCEPT !.infile = <<a>>])
          ELSE IF st.outfile = <<>>
            THEN phits2mcpl_parse_loop(args, i + 1, [st EXCEPT !.outfile = <<a>>])
          ELSE ParseExit(1, "Error: Too many arguments!")

\* lines 217-313
phits2mcpl_parse_args(args) ==
  LET r == phits2mcpl_parse_loop(args, 1,
             [cfgfile |-> <<>>, dumpsummaryfile |-> <<>>, infile |-> <<>>,
              outfile |-> <<>>, double_prec |-> 0, do_gzip |-> 1])
  IN IF r.exit # -1 THEN r
     ELSE IF r.st.infile = <<>> THEN ParseExit(1, "Error: Too few arguments!")
     ELSE LET st == IF r.st.outfile = <<>> THEN [r.st EXCEPT !.outfile = <<OutputMcpl>>]
                    ELSE r.st
          IN IF identical_files(st.infile, st.outfile)
             THEN ParseExit(1, "Error: input and output files are identical.")
             ELSE [exit |-> -1, msg |-> "", st |-> st]

IsDigit(c) == c \in {"0", "1", "2", "3", "4", "5", "6", "7", "8", "9"}
DigitValue(c) ==
  CASE c = "0" -> 0 [] c = "1" -> 1 [] c = "2" -> 2 [] c = "3" -> 3 [] c = "4" -> 4
    [] c = "5" -> 5 [] c = "6" -> 6 [] c = "7" -> 7 [] c = "8" -> 8 [] c = "9" -> 9

\* mcpl2phits_app_usage (lines 447-480) with an error message: returns 1
UsageError(msg) == [ret |-> 1, msg |-> msg, st |-> <<>>]
\* mcpl2phits_app_usage without one, and return -1
UsageHelp == [ret |-> -1, msg |-> "Usage", st |-> <<>>]

\* lines 503-524: the short options of argument a from character j on (the
\* characters are counted from 1); the result is the state, or the return
\* of the parse
RECURSIVE short_options(_, _, _, _)
short_options(a, j, consume_digit, st) ==
  IF j > Len(a) THEN [ret |-> 0, msg |-> "", st |-> st]
  ELSE IF consume_digit
    THEN IF ~IsDigit(a[j]) THEN UsageError("Bad option: expected number")
         ELSE short_options(a, j + 1, TRUE,
                [st EXCEPT !.opt_num_limit = 10 * st.opt_num_limit + DigitValue(a[j])])
  ELSE IF a[j] = "h" THEN UsageHelp
  ELSE IF a[j] = "l"
    THEN IF j = Len(a) THEN UsageError("Bad option: missing number")
         ELSE short_options(a, j + 1, TRUE, [st EXCEPT !.opt_num_limit = 0])
  ELSE IF a[j] = "f" THEN short_options(a, j + 1, FALSE, [st EXCEPT !.use64bitreclen = 1])
  ELSE IF a[j] = "n" THEN short_options(a, j + 1, FALSE, [st EXCEPT !.nopolarisation = 1])
  ELSE UsageError("Unrecognised option")

\* lines 494-537: the loop over the arguments, from argument i on
RECURSIVE mcpl2phits_parse_loop(_, _, _)
mcpl2phits_parse_loop(args, i, st) ==
  IF i > Len(args) THEN [ret |-> 0, msg |-> "", st |-> st]
  ELSE LET a == args[i]
           n == Len(a)
       IN IF n = 0 THEN mcpl2phits_parse_loop(args, i + 1, st)
          ELSE IF n >= 2 /\ a[1] = "-" /\ a[2] # "-"
            THEN LET r == short_options(a, 2, FALSE, st)
                 IN IF r.ret # 0 THEN r ELSE mcpl2phits_parse_loop(args, i + 1, r.st)
          ELSE IF n = 6 /\ a = OptHelp THEN UsageHelp
          ELSE IF n >= 1 /\ a[1] # "-"
            THEN IF st.outphitsfile # <<>> THEN UsageError("Too many arguments.")
                 ELSE IF st.inmcplfile # <<>>
                 THEN mcpl2phits_parse_loop(args, i + 1, [st EXCEPT !.outphitsfile = <<a>>])
                 ELSE mcpl2phits_parse_loop(args, i + 1, [st EXCEPT !.inmcplfile = <<a>>])
          ELSE UsageError("Bad arguments")

\* lines 482-552: 0 all ok, 1 error, -1 help
mcpl2phits_parse_args(args) ==
  LET r == mcpl2phits_parse_loop(args, 1,
             [inmcplfile |-> <<>>, outphitsfile |-> <<>>, nparticles_limit |-> INT32_MAX,
              use64bitreclen |-> 0, nopolarisation |-> 0, opt_num_limit |-> -1])
  IN IF r.ret # 0 THEN r
     ELSE IF r.st.inmcplfile = <<>>
       THEN UsageError("Missing argument : input MCPL file")
     ELSE [ret |-> 0, msg |-> "",
           st |-> [r.st EXCEPT
                     !.outphitsfile = IF @ = <<>> THEN <<PhitsDmp>> ELSE @,
                     !.nparticles_limit =
                        IF r.st.opt_num_limit <= 0 THEN 0 ELSE r.st.opt_num_limit]]

\* the arguments the tools are run with
FwdArgs ==
  {<<>>, OptH, OptHelp, OptC, OptS, OptD, OptN, <<"-", "x">>, <<"a">>, OutputMcpl}
RevArgs ==
  {<<>>, OptH, OptHelp, <<"-", "f">>, OptN, <<"-", "f", "h">>, <<"-", "l", "5">>,
   <<"-", "l">>, <<"-", "l", "x">>, <<"-", "x">>, <<"-", "-", "x">>, <<"-">>,
   <<"a">>, <<"b">>}

AppInit ==
  /\ a_pc = "main"
  /\ \/ a_tool = "phits2mcpl" /\ argv \in SeqsUpTo(FwdArgs, MaxArgs)
     \/ a_tool = "mcpl2phits" /\ argv \in SeqsUpTo(RevArgs, MaxArgs)
  /\ a_call = <<>> /\ a_log = <<>> /\ a_exit = -1

\* phits2mcpl_app (lines 315-325); ok is what phits2mcpl2 returns
phits2mcpl_app ==
  /\ a_pc = "main" /\ a_tool = "phits2mcpl"
  /\ LET parse == phits2mcpl_parse_args(argv)
     IN IF parse.exit # -1
        THEN /\ a_exit' = parse.exit
             /\ a_log' = <<parse.msg>>
             /\ a_call' = a_call
        ELSE \E ok \in {0, 1} :
               /\ a_call' = <<[fn |-> "phits2mcpl2", infile |-> parse.st.infile,
                               outfile |-> parse.st.outfile,
                               opt_dp |-> parse.st.double_prec,
                               opt_gzip |-> parse.st.do_gzip,
                               inputdeckfile |-> parse.st.cfgfile,
                               dumpsummaryfile |-> parse.st.dumpsummaryfile]>>
               /\ a_exit' = IF ok # 0 THEN 0 ELSE 1
               /\ a_log' = a_log
  /\ a_pc' = "exited"
  /\ UNCHANGED <<a_tool, argv, textVars, wrVars, m2pVars, p2mVars, bigVars, rtVars, f2bVars>>

\* mcpl2phits_app (lines 554-574); mcpl2phits returns 1 or ends the process
\* in phits_error
mcpl2phits_app ==
  /\ a_pc = "main" /\ a_tool = "mcpl2phits"
  /\ LET parse == mcpl2phits_parse_args(argv)
     IN IF parse.ret = -1
        THEN a_exit' = 0 /\ a_log' = <<parse.msg>> /\ a_call' = a_call
        ELSE IF parse.ret # 0
        THEN a_exit' = parse.ret /\ a_log' = <<parse.msg>> /\ a_call' = a_call
        ELSE \E returned \in BOOLEAN :
               /\ a_call' = <<[fn |-> "mcpl2phits", inmcplfile |-> parse.st.inmcplfile,
                               outphitsdumpfile |-> parse.st.outphitsfile,
                               use_polarisation |->
                                 IF parse.st.nopolarisation # 0 THEN 0 ELSE 1,
                               nparticles_limit |-> parse.st.nparticles_limit,
                               reclen |-> IF parse.st.use64bitreclen # 0 THEN 8 ELSE 4]>>
               /\ a_exit' = IF returned THEN 0 ELSE 1
               /\ a_log' = a_log
  /\ a_pc' = "exited"
  /\ UNCHANGED <<a_tool, argv, textVars, wrVars, m2pVars, p2mVars, bigVars, rtVars, f2bVars>>

-----------------------------------------------------------------------------
(* Specifications. *)

InitText == TextInit /\ WRIdle /\ M2PIdle /\ P2MIdle /\ BigIdle /\ AppIdle /\ RTIdle /\ F2BIdle
NextText == TextCall
SpecText == InitText /\ [][NextText]_vars

InitWR == WRInit /\ TextIdle /\ M2PIdle /\ P2MIdle /\ BigIdle /\ AppIdle /\ RTIdle /\ F2BIdle
NextWR == WRCall
SpecWR == InitWR /\ [][NextWR]_vars

InitM2P == M2PInit /\ TextIdle /\ WRIdle /\ P2MIdle /\ BigIdle /\ AppIdle /\ RTIdle /\ F2BIdle
NextM2P == M2PStart \/ M2PLoop \/ M2PEnd \/ M2PFinish
SpecM2P == InitM2P /\ [][NextM2P]_vars

InitM2PLong ==
  M2PLongInit /\ TextIdle /\ WRIdle /\ P2MIdle /\ BigIdle /\ AppIdle /\ RTIdle /\ F2BIdle
SpecM2PLong == InitM2PLong /\ [][NextM2P]_vars

InitBig == BigInit /\ TextIdle /\ WRIdle /\ M2PIdle /\ P2MIdle /\ AppIdle /\ RTIdle /\ F2BIdle
NextBig == BigLoop \/ BigEnd \/ BigFinish
SpecBig == InitBig /\ [][NextBig]_vars

InitRT == RTInit /\ TextIdle /\ WRIdle /\ M2PIdle /\ P2MIdle /\ BigIdle /\ AppIdle /\ F2BIdle
NextRT == RTToPhits \/ RTToMcpl
SpecRT == InitRT /\ [][NextRT]_vars

InitApp == AppInit /\ TextIdle /\ WRIdle /\ M2PIdle /\ P2MIdle /\ BigIdle /\ RTIdle /\ F2BIdle
NextApp == phits2mcpl_app \/ mcpl2phits_app
SpecApp == InitApp /\ [][NextApp]_vars

InitP2M == P2MInit /\ TextIdle /\ WRIdle /\ M2PIdle /\ BigIdle /\ AppIdle /\ RTIdle /\ F2BIdle
NextP2M == P2MStart \/ P2MInputDeck \/ P2MDumpSummary \/ P2MLoop \/ P2MFinish
SpecP2M == InitP2M /\ [][NextP2M]_vars

InitF2B == F2BInit /\ TextIdle /\ WRIdle /\ M2PIdle /\ P2MIdle /\ BigIdle /\ AppIdle /\ RTIdle
NextF2B == F2BOpen \/ F2BSize \/ F2BRewind \/ F2BMalloc \/ F2BRead \/ F2BClose
SpecF2B == InitF2B /\ [][NextF2B]_vars

\* either converter, phits2mcpl2 with no ancillary file, a good one or one
\* without "dump"
ConvInit ==
  \/ M2PInit /\ P2MIdle /\ F2BIdle
  \/ P2MInit /\ inputdeckfile \in {0, 3, 9} /\ dumpsummaryfile \in {0, 3, 9} /\ M2PIdle /\ F2BIdle
InitConv == ConvInit /\ TextIdle /\ WRIdle /\ BigIdle /\ AppIdle /\ RTIdle /\ F2BIdle
NextConv == NextM2P \/ NextP2M
SpecConv == InitConv /\ [][NextConv]_vars

-----------------------------------------------------------------------------
(* Claims about phitsmcpl_buf_is_text, under SpecText. *)

\* the byte ranges of the claim, written out
AcceptedByte(b) == b \in 9..13 \/ b \in 32..126 \/ b >= 128

\* C10: phitsmcpl_buf_is_text(n, buf) returns 1 if and only if every one of
\* the n bytes is in [9,13], in [32,126] or is >= 128, and 0 otherwise; a
\* byte in 0..8, 14..31 or equal to 127 anywhere among them makes it return
\* 0, and n = 0 returns 1.
C10_TextIff ==
  t_ret # -1 =>
    /\ t_ret \in {0, 1}
    /\ (t_ret = 1) <=> (\A i \in 1..t_n : AcceptedByte(t_buf[i]))
    /\ (\E i \in 1..t_n : t_buf[i] \in (0..8) \cup (14..31) \cup {127}) => t_ret = 0
    /\ t_n = 0 => t_ret = 1

\* C10 witness: a buffer of accepted bytes ending in DEL (127) was rejected
C10_Witness == t_ret = 0 /\ t_n = 2 /\ t_buf = <<126, 127>>

-----------------------------------------------------------------------------
(* Claims about phits_writerecord, under SpecWR. *)

\* the value of a marker read back from its bytes, as size_t limbs
MarkerValue(unit) ==
  [k \in 1..4 |-> IF 2 * k <= Len(unit) THEN unit[2 * k - 1][2] + 256 * unit[2 * k][2]
                  ELSE 0]

IsMarker(ext, N, value) ==
  /\ ext.len = ToSizeT(N)
  /\ Len(ext.unit) = N
  /\ \A i \in 1..N : ext.unit[i][1] = "u8" /\ ext.unit[i][2] \in 0..255
  /\ MarkerValue(ext.unit) = value

\* what the call appended to the stream it was given
WRAppended == SubSeq(wr_out, Len(wr_old) + 1, Len(wr_out))

\* the appended extents are a marker of value lbuf, the lbuf bytes of buf and
\* the same marker again
WRFramed ==
  LET payload ==
        IF wr_lbuf = ToSizeT(0) THEN <<>>
        ELSE <<[unit |-> IF IsSmall(wr_lbuf) /\ FromSizeT(wr_lbuf) < Len(wr_buf.unit)
                         THEN SubSeq(wr_buf.unit, 1, FromSizeT(wr_lbuf))
                         ELSE wr_buf.unit,
                len |-> wr_lbuf]>>
  IN /\ Len(wr_out) = Len(wr_old) + 2 + Len(payload)
     /\ SubSeq(wr_out, 1, Len(wr_old)) = wr_old
     /\ IsMarker(WRAppended[1], wr_reclen, wr_lbuf)
     /\ SubSeq(WRAppended, 2, Len(WRAppended) - 1) = payload
     /\ WRAppended[Len(WRAppended)] = WRAppended[1]

\* lbuf is a value of an unsigned integer of N bytes
FitsMarker(lbuf, N) == N = 8 \/ (lbuf[3] = 0 /\ lbuf[4] = 0)

\* C1 as stated: for N in {4,8} and every payload length lbuf, when all three
\* writes succeed the appended bytes are an N-byte marker of value lbuf, the
\* lbuf payload bytes, and an identical trailing marker, nothing else.
C1_Original == wr_pc = "returned" => WRFramed

\* C1 amended: the same, for every payload length lbuf that an unsigned
\* integer of N bytes can hold (lbuf < 2^32 when N = 4).
C1_Framed == (wr_pc = "returned" /\ FitsMarker(wr_lbuf, wr_reclen)) => WRFramed

\* C1 witness: a record of 2^32 - 1 bytes was written with 4-byte markers
\* after an earlier record
C1_Witness ==
  /\ wr_pc = "returned" /\ wr_reclen = 4
  /\ wr_lbuf = <<65535, 65535, 0, 0>> /\ wr_old # <<>>

-----------------------------------------------------------------------------
(* Claims about mcpl2phits, under SpecM2P. *)

\* the particle the iteration that ended at read position i was given
ReadParticle(i) == McplParticles[fmcpl[i]]
Unmapped(i) == conv_code_pdg2phits(ReadParticle(i).pdgcode) = 0

RECURSIVE StreamLength(_)
StreamLength(stream) ==
  IF stream = <<>> THEN 0 ELSE FromSizeT(Head(stream).len) + StreamLength(Tail(stream))

\* the bytes of one whole record
FrameLength == 2 * m_reclen + record_lbuf(use_polarisation)

\* C2: in mcpl2phits, for a source record whose PDG code conv_code_pdg2phits
\* maps to 0 no output is written and the skip counter goes up by exactly
\* one; for a record with a nonzero mapping the skip counter does not move.
C2_SkipStep ==
  [][ m_pos' = m_pos + 1 =>
        IF conv_code_pdg2phits(McplParticles[fmcpl[m_pos + 1]].pdgcode) = 0
        THEN /\ fout' = fout
             /\ used' = used
             /\ skipped_nophitstype' = skipped_nophitstype + 1
        ELSE skipped_nophitstype' = skipped_nophitstype ]_vars

\* C2 witness: three records read, two of them skipped, one written
C2_Witness ==
  /\ m_pos = 3 /\ skipped_nophitstype = 2 /\ used = 1
  /\ Unmapped(1) /\ ~Unmapped(2) /\ Unmapped(3)
  /\ StreamLength(fout) = FrameLength

\* C4: with a limit L > 0 the loop stops right after the L-th record is
\* written: the written count never exceeds L, the loop has ended as soon as
\* it equals L, with the last record read being the L-th written one, and
\* the loop ends before the end of the source only so, so skipped records
\* do not count; with L = 0 the loop ends only at end-of-stream.
C4_Limit ==
  /\ nparticles_limit > 0 => used <= nparticles_limit
  /\ (nparticles_limit > 0 /\ used = nparticles_limit) =>
        /\ m_pc \in {"after", "done"}
        /\ ~Unmapped(m_pos)
        /\ StreamLength(fout) = nparticles_limit * FrameLength
  /\ (m_pc \in {"after", "done"} /\ m_pos < Len(fmcpl)) =>
        (nparticles_limit > 0 /\ used = nparticles_limit)
  /\ (nparticles_limit = 0 /\ m_pc \in {"after", "done"}) => m_pos = Len(fmcpl)

\* C4 witness: limit 1 was reached at the second record, after a skipped
\* one, with a third record left unread
C4_Witness ==
  /\ m_pc = "done" /\ nparticles_limit = 1 /\ used = 1
  /\ skipped_nophitstype = 1 /\ m_pos = 2 /\ Len(fmcpl) = 3

LimitJustReached == m_pc = "after" /\ nparticles_limit > 0 /\ used = nparticles_limit
LimitMessage(n) == <<"Output limit reached. Ignoring remaining", n>>
LimitMessages == {i \in 1..Len(m_log) : m_log[i][1] = "Output limit reached. Ignoring remaining"}
RemainingNow == mcpl_hdr_nparticles(fmcpl) - skipped_nophitstype - used

\* C5 as stated: when mcpl2phits reaches its limit it logs the number of
\* remaining records, which is total - skipped - written at that moment.
C5_Original ==
  LimitJustReached => (m_log # <<>> /\ m_log[Len(m_log)] = LimitMessage(RemainingNow))

\* C5 amended: when mcpl2phits reaches its limit and
\* total - skipped - written is not 0 at that moment, it logs that number as
\* the number of remaining records; when it is 0 it logs no such message;
\* the message is logged at most once and never without the limit reached.
C5_Remaining ==
  /\ LimitJustReached =>
        IF RemainingNow # 0
        THEN m_log[Len(m_log)] = LimitMessage(RemainingNow) /\ Cardinality(LimitMessages) = 1
        ELSE LimitMessages = {}
  /\ LimitMessages # {} => (nparticles_limit > 0 /\ used = nparticles_limit)

\* C5 witness: limit 1 reached on a source of three records, the first
\* skipped, the second written: 3 - 1 - 1 = 1 logged
C5_Witness ==
  /\ LimitJustReached /\ Len(fmcpl) = 3 /\ skipped_nophitstype = 1 /\ used = 1
  /\ m_log[Len(m_log)] = LimitMessage(1)

\* the source of the end-to-end scenario: the electron, the particle of
\* code 0 and the excited nucleus, once each, converted with 4-byte markers
\* and no polarisation to the end
Scenario6 ==
  /\ Len(fmcpl) = 3 /\ {fmcpl[i] : i \in 1..3} = {1, 2, 3}
  /\ m_reclen = 4 /\ use_polarisation = 0 /\ nparticles_limit = 0
  /\ m_pc = "done"

\* one record of 80 payload bytes, the first 10 doubles of dumpdata, between
\* two 4-byte markers of value 80
OneRecordOf80 ==
  /\ Len(fout) = 3
  /\ IsMarker(fout[1], 4, ToSizeT(80))
  /\ fout[2].len = ToSizeT(80)
  /\ fout[2].unit = SubSeq(ArrayBytes(dumpdata), 1, 80)
  /\ fout[3] = fout[1]

ReportedSkips(n) ==
  \E i \in 1..Len(m_log) : m_log[i] = <<"WARNING: Ignored particles", n>>

\* C6 as stated: the scenario yields exactly one record of 80 payload bytes
\* framed by two 4-byte markers equal to 80, and a reported skip count of 1.
C6_Original == Scenario6 => (OneRecordOf80 /\ ReportedSkips(1))

\* C6 amended: the scenario yields exactly one record of 80 payload bytes
\* framed by two 4-byte markers equal to 80, and a reported skip count of 2:
\* the particle of code 0 has no PHITS code either and is counted.
C6_EndToEnd ==
  Scenario6 => (OneRecordOf80 /\ ReportedSkips(2) /\ skipped_nophitstype = 2 /\ used = 1)

\* C6 witness: the scenario ran to the end in the order of the claim
C6_Witness == Scenario6 /\ fmcpl = <<1, 2, 3>> /\ m_ret = 1

\* the bytes fwrite call i of a record is asked to transfer
Requested(i) == IF i = 2 THEN ToSizeT(record_lbuf(use_polarisation)) ELSE ToSizeT(m_reclen)
ShortWrite == \E i \in 1..Len(m_nb) : m_nb[i] # Requested(i)
RECURSIVE SumSizes(_)
SumSizes(sizes) == IF sizes = <<>> THEN 0 ELSE FromSizeT(Head(sizes)) + SumSizes(Tail(sizes))

\* C9: if one of the three writes of a record transfers fewer bytes than
\* requested, that write is the last one issued (the stream holds the whole
\* records written before and what the writes up to the short one
\* transferred), no further particle is processed and mcpl2phits does not
\* return success.
C9_Fatal ==
  ShortWrite =>
    /\ m_pc = "exit"
    /\ m_ret # 1
    /\ \A i \in 1..(Len(m_nb) - 1) : m_nb[i] = Requested(i)
    /\ StreamLength(fout) = used * FrameLength + SumSizes(m_nb)
    /\ ~ENABLED NextM2P

\* C9 witness: the payload write of the second record fell one byte short,
\* with a particle still unread
C9_Witness ==
  /\ m_pc = "exit" /\ used = 1 /\ Len(m_nb) = 2
  /\ m_nb[2] = ToSizeT(record_lbuf(use_polarisation) - 1)
  /\ m_pos < Len(fmcpl)

-----------------------------------------------------------------------------
(* Claims about phits2mcpl2 and phitsmcpl_file2buf, under SpecP2M. *)

\* the PDG code of the i-th record of the dump file
SourcePdg(i) == conv_code_phits2pdg(PhitsRecords[phitsdump[i]].rawtype)
Appended == IF p_pc \in {"idle", "start"} THEN <<>> ELSE mcplfh.particles

\* C3: in phits2mcpl2 a source particle of PDG code 0 is never appended:
\* at any point the number of appended particles is the number of particles
\* read so far with a nonzero PDG code, and no appended particle has code 0.
C3_NoZeroCode ==
  /\ Len(Appended) = Cardinality({i \in 1..p_pos : SourcePdg(i) # 0})
  /\ \A k \in 1..Len(Appended) : Appended[k].pdgcode # 0

\* C3 witness: a run that ended after a particle of code 0 between two
\* particles that were appended
C3_Witness ==
  /\ p_pc = "returned" /\ p_ret = 1 /\ p_pos = 3
  /\ SourcePdg(1) # 0 /\ SourcePdg(2) = 0 /\ SourcePdg(3) # 0
  /\ Len(Appended) = 2

\* C7: every file handle acquired is closed on every exit path: once
\* phitsmcpl_file2buf has returned, the ancillary file it opened is closed,
\* and once phits2mcpl2 has returned, the dump file and the output are closed.
C7_HandlesClosed ==
  /\ p_pc \in {"dumpsummary", "loop", "returned"} => "inputdeckfile" \notin p_open
  /\ p_pc \in {"loop", "returned"} => "dumpsummaryfile" \notin p_open
  /\ p_pc = "returned" => p_open = {}

AncillaryErrors ==
  {i \in 1..Len(p_log) : p_log[i][1] \in
     {"Error: could not open file", "Error: file is suspiciously short",
      "Error: file is larger than", "Error: Could not rewind file",
      "Error: file read-error", "Error: file does not appear to be a text file",
      "Error: specified configuration file looks invalid",
      "Error: specified dump summary file looks invalid"}}

\* C8: in phits2mcpl2, if loading or checking either ancillary file fails,
\* the conversion returns 0 with no particle read from the source or
\* appended to the output; phits2mcpl2 returns 0 in no other case.
C8_AbortBeforeParticles ==
  /\ AncillaryErrors # {} =>
        /\ p_pc = "returned" /\ p_ret = 0
        /\ p_pos = 0 /\ Appended = <<>>
        /\ Cardinality(AncillaryErrors) = 1
  /\ p_ret = 0 => AncillaryErrors # {}

\* C8 witness: the input deck was embedded and the dump summary file, text
\* without "dump", was refused, with particles in the source
C8_Witness ==
  /\ p_ret = 0 /\ inputdeckfile = 3 /\ dumpsummaryfile = 9
  /\ Len(mcplfh.data) = 1 /\ Len(phitsdump) > 0

\* what the claim asks of a file for it to be embedded, "can be opened"
\* being read as: can be opened and read to its end
Eligible(file) ==
  /\ file.can_open /\ file.rewind /\ file.read_ok
  /\ file.size >= 50 /\ file.size <= 104857600
  /\ \A b \in {file.unit[i] : i \in 1..Len(file.unit)} : AcceptedByte(b)
  /\ contains_dump([unit |-> file.unit, len |-> file.size])

Embedded(key) ==
  /\ p_pc \notin {"idle", "start"}
  /\ \E i \in 1..Len(mcplfh.data) : mcplfh.data[i].key = key

\* the input deck, or the dump summary file, has been dealt with
DeckHandled == inputdeckfile # 0 /\ p_pc \notin {"idle", "start", "inputdeck"}
SummaryHandled ==
  /\ dumpsummaryfile # 0 /\ p_pc \in {"loop", "returned"}
  /\ (inputdeckfile = 0 \/ Embedded("phits_input_deck"))

\* C11: an ancillary file is embedded into the output header by phits2mcpl2
\* if and only if it can be opened, has between 50 and 104857600 bytes, is
\* text and contains "dump"; a file under 50 bytes, over 100 MiB, not text
\* or without "dump" is rejected with failure and no blob is added for it.
C11_EmbeddedIff ==
  /\ DeckHandled =>
       /\ Embedded("phits_input_deck") <=> Eligible(AncillaryFiles[inputdeckfile])
       /\ ~Eligible(AncillaryFiles[inputdeckfile]) => (p_pc = "returned" /\ p_ret = 0)
  /\ SummaryHandled =>
       /\ Embedded("phits_dump_summary_file") <=> Eligible(AncillaryFiles[dumpsummaryfile])
       /\ ~Eligible(AncillaryFiles[dumpsummaryfile]) => (p_pc = "returned" /\ p_ret = 0)

-----------------------------------------------------------------------------
(* Claims about the warnings of mcpl2phits, under SpecM2PLong. *)

Printed(text) == {i \in 1..Len(m_log) : m_log[i][1] = text}
PerSkipWarnings == Printed("WARNING: Found PDG code which can not be converted")
SuppressNotices == Printed("WARNING: Suppressing future warnings")
AggregateWarnings == Printed("WARNING: Ignored particles")
LoopEnded == Printed("Ending particle conversion loop")

\* C12: with S records skipped, a per-occurrence warning was printed for the
\* first min(S,100) of them and for none after the 100th, the suppression
\* notice once iff S >= 100 (right after the 100th warning), and once the
\* loop has ended one aggregate warning with the total S iff S > 0, the
\* loop having ended at the end of the source or by the limit; no aggregate
\* warning is printed before.
C12_Warnings ==
  LET S == skipped_nophitstype
  IN /\ Cardinality(PerSkipWarnings) = (IF S < 100 THEN S ELSE 100)
     /\ Cardinality(SuppressNotices) = (IF S >= 100 THEN 1 ELSE 0)
     /\ \A i \in SuppressNotices :
           /\ i - 1 \in PerSkipWarnings
           /\ Cardinality({j \in PerSkipWarnings : j < i}) = 100
     /\ LoopEnded = {} => AggregateWarnings = {}
     /\ m_pc = "done" =>
           /\ Cardinality(AggregateWarnings) = (IF S > 0 THEN 1 ELSE 0)
           /\ \A i \in AggregateWarnings :
                 /\ m_log[i] = <<"WARNING: Ignored particles", S>>
                 /\ \A j \in LoopEnded : j < i

\* C12 witness: 101 records were skipped, 100 warned about, and the run
\* ended by its limit with a record left unread
C12_Witness ==
  /\ m_pc = "done" /\ skipped_nophitstype = 101
  /\ Cardinality(PerSkipWarnings) = 100
  /\ nparticles_limit = 1 /\ used = 1 /\ m_pos < Len(fmcpl)
  /\ AggregateWarnings # {}

-----------------------------------------------------------------------------
(* Claims about the counter of mcpl2phits, under SpecBig. *)

Advisories ==
  {i \in 1..Len(b_log) : b_log[i][1] = "WARNING: Writing more than 2147483647 particles"}

\* the whole records in the output file, and the records whose write was
\* started, since the beginning of the run
WholeRecords ==
  LLAdd(b_used0,
        ToSizeT(StreamLength(b_out) \div (2 * b_reclen + record_lbuf(b_pol))))
StartedRecords ==
  LLAdd(b_used0,
        ToSizeT(Cardinality({i \in 1..b_pos :
                   conv_code_pdg2phits(McplParticles[b_src[i]].pdgcode) # 0})))
MoreThanInt32Max(n) == LLLess(<<65535, 32767, 0, 0>>, n)

\* the advisory leaves the loop running: once printed, the loop ends only at
\* the end of the source or at the limit, and short of a write error every
\* convertible record read, the one that triggered it included, is written
AdvisoryGoesOn ==
  Advisories # {} =>
    /\ b_pc \in {"after", "done"} => (b_pos = Len(b_src) \/ b_used = b_limit)
    /\ b_pc # "exit" => (WholeRecords = StartedRecords /\ MoreThanInt32Max(WholeRecords))

\* C13 as stated: the advisory is printed exactly once in a run that writes
\* more than INT32_MAX records and never in a run that writes at most
\* INT32_MAX records; it does not stop the loop, the record that triggered
\* it and the later convertible records being written.
C13_Original ==
  /\ MoreThanInt32Max(WholeRecords) => Cardinality(Advisories) = 1
  /\ ~MoreThanInt32Max(WholeRecords) => Advisories = {}
  /\ AdvisoryGoesOn

\* C13 amended: the advisory is printed exactly once in a run that starts
\* the write of more than INT32_MAX records (before the write of record
\* INT32_MAX + 1, with the written count at INT32_MAX) and never in a run
\* that starts at most INT32_MAX writes; it does not stop the loop.
C13_Advisory ==
  /\ MoreThanInt32Max(StartedRecords) => Cardinality(Advisories) = 1
  /\ ~MoreThanInt32Max(StartedRecords) => Advisories = {}
  /\ AdvisoryGoesOn

\* C13 witness: a run that wrote INT32_MAX + 2 records and ended at the end
\* of its source, the advisory printed once
C13_Witness ==
  /\ b_pc = "done" /\ b_limit = ToSizeT(0)
  /\ b_used = <<1, 32768, 0, 0>> /\ WholeRecords = b_used
  /\ Cardinality(Advisories) = 1

-----------------------------------------------------------------------------
(* Claims about the round trip, under SpecRT. *)

\* every field but the time came back as it was
SameButTime ==
  /\ rt_back.pdgcode = rt_particle.pdgcode
  /\ rt_back.position = rt_particle.position
  /\ rt_back.direction = rt_particle.direction
  /\ rt_back.ekin = rt_particle.ekin
  /\ rt_back.weight = rt_particle.weight
  /\ rt_back.polarisation = rt_particle.polarisation

Abs(n) == IF n < 0 THEN -n ELSE n

\* the distance between two doubles in units of the last place of the one
\* of smaller exponent; 1000 when their exponents differ by more than one
UlpDistance(a, b) ==
  IF a = b THEN 0
  ELSE IF a[1] = 0 \/ b[1] = 0 THEN 1000
  ELSE IF a[2] = b[2] THEN Abs(a[1] - b[1])
  ELSE IF a[2] = b[2] + 1 THEN Abs(2 * a[1] - b[1])
  ELSE IF b[2] = a[2] + 1 THEN Abs(2 * b[1] - a[1])
  ELSE 1000

\* C14 as stated: for a particle whose PDG code has a PHITS code, mcpl2phits
\* (13 fields) followed by phits2mcpl2 preserves code, position, direction,
\* energy, weight and polarisation exactly, and the time too, x 1e-6 then
\* x 1e6 being the identity on it.
C14_Original ==
  rt_pc = "back" => (SameButTime /\ rt_back.time = rt_particle.time)

\* C14 amended: code, position, direction, energy, weight and polarisation
\* are preserved exactly; the time is preserved up to the rounding of the
\* two multiplications: it comes back within 2 units of its last place.
C14_RoundTrip ==
  rt_pc = "back" => (SameButTime /\ UlpDistance(rt_back.time, rt_particle.time) <= 2)

\* C14 witness: a neutron came back with its time changed in the last place
C14_Witness ==
  /\ rt_pc = "back" /\ rt_particle.pdgcode = 2112
  /\ rt_back.time # rt_particle.time
  /\ UlpDistance(rt_back.time, rt_particle.time) <= 2

-----------------------------------------------------------------------------
(* Claims about both converters, under SpecConv. *)

\* the places in the MCPL source, among the first n, of the particles with
\* a PHITS code, in source order
RECURSIVE KeptOfMcpl(_)
KeptOfMcpl(n) ==
  IF n = 0 THEN <<>>
  ELSE IF Unmapped(n) THEN KeptOfMcpl(n - 1) ELSE Append(KeptOfMcpl(n - 1), n)

\* the places in the PHITS source, among the first n, of the particles with
\* a PDG code, in source order
RECURSIVE KeptOfPhits(_)
KeptOfPhits(n) ==
  IF n = 0 THEN <<>>
  ELSE IF SourcePdg(n) = 0 THEN KeptOfPhits(n - 1) ELSE Append(KeptOfPhits(n - 1), n)

\* the payload of the PHITS record of an MCPL particle
PayloadOf(p) ==
  SubSeq(ArrayBytes(<<DblFromInt(conv_code_pdg2phits(p.pdgcode)),
                      p.position[1], p.position[2], p.position[3],
                      p.direction[1], p.direction[2], p.direction[3],
                      p.ekin, p.weight, DblMul(p.time, Dbl1em6),
                      p.polarisation[1], p.polarisation[2], p.polarisation[3]>>),
         1, record_lbuf(use_polarisation))

\* the MCPL particle of a PHITS record
ParticleOf(rec) ==
  [pdgcode |-> conv_code_phits2pdg(rec.rawtype),
   position |-> <<rec.x, rec.y, rec.z>>,
   direction |-> <<rec.dirx, rec.diry, rec.dirz>>,
   polarisation |-> IF has_polarisation THEN <<rec.polx, rec.poly, rec.polz>>
                    ELSE <<<<0, 0>>, <<0, 0>>, <<0, 0>>>>,
   ekin |-> rec.ekin, weight |-> rec.weight, time |-> DblMul(rec.time, Dbl1e6),
   userflags |-> 0]

\* C15: in both converters the emitted records are, in order, those of the
\* source particles read so far that are not skipped, one each: none
\* duplicated, reordered or emitted for a skipped particle; in mcpl2phits
\* the particles read are those before the limit cut-off.
C15_InOrder ==
  /\ m_pc \in {"loop", "after", "done"} =>
       LET kept == KeptOfMcpl(m_pos)
       IN /\ Len(fout) = 3 * Len(kept)
          /\ \A k \in 1..Len(kept) :
                /\ fout[3 * k - 1].unit = PayloadOf(ReadParticle(kept[k]))
                /\ IsMarker(fout[3 * k - 2], m_reclen, ToSizeT(record_lbuf(use_polarisation)))
                /\ fout[3 * k] = fout[3 * k - 2]
          /\ nparticles_limit > 0 => Len(kept) <= nparticles_limit
  /\ p_pc \in {"loop", "returned"} =>
       LET kept == KeptOfPhits(p_pos)
       IN /\ Len(Appended) = Len(kept)
          /\ \A k \in 1..Len(kept) :
                Appended[k] = ParticleOf(PhitsRecords[phitsdump[kept[k]]])

\* C15 witness: mcpl2phits wrote the neutron and the electron of a source
\* with a skipped particle between them
C15_Witness ==
  /\ m_pc = "done" /\ fmcpl = <<4, 2, 1>> /\ nparticles_limit = 0
  /\ Len(fout) = 6
  /\ fout[2].unit = PayloadOf(McplParticles[4])
  /\ fout[5].unit = PayloadOf(McplParticles[1])

-----------------------------------------------------------------------------
(* Claims about the file mcpl2phits leaves, under SpecM2P. *)

\* the first 10 fields of the record of an MCPL particle, as bytes
FirstTenOf(p) ==
  ArrayBytes(<<DblFromInt(conv_code_pdg2phits(p.pdgcode)),
               p.position[1], p.position[2], p.position[3],
               p.direction[1], p.direction[2], p.direction[3],
               p.ekin, p.weight, DblMul(p.time, Dbl1em6)>>)

\* the payload length of the claim
ClaimedPayload == IF use_polarisation = 0 THEN 80 ELSE 104

\* C16: after mcpl2phits has completed, the output file is the written
\* records one after the other and nothing else; every record has markers
\* of the caller's width (4 or 8) and a payload of 80 bytes without
\* polarisation, 104 with; the first 10 fields of a record are the same
\* whatever the polarisation flag.
C16_FileLayout ==
  m_pc = "done" =>
    /\ m_reclen \in {4, 8}
    /\ Len(fout) = 3 * used
    /\ StreamLength(fout) = used * (2 * m_reclen + ClaimedPayload)
    /\ \A k \in 1..used :
          /\ IsMarker(fout[3 * k - 2], m_reclen, ToSizeT(ClaimedPayload))
          /\ fout[3 * k - 1].len = ToSizeT(ClaimedPayload)
          /\ Len(fout[3 * k - 1].unit) = ClaimedPayload
          /\ fout[3 * k] = fout[3 * k - 2]
          /\ SubSeq(fout[3 * k - 1].unit, 1, 80)
               = FirstTenOf(ReadParticle(KeptOfMcpl(m_pos)[k]))

\* C16 witness: a file of two records with polarisation and 8-byte markers
C16_Witness ==
  /\ m_pc = "done" /\ m_reclen = 8 /\ use_polarisation = 1 /\ used = 2
  /\ StreamLength(fout) = 240

-----------------------------------------------------------------------------
(* Claims about the command-line tools, under SpecApp. *)

Forward == a_tool = "phits2mcpl"
Reverse == a_tool = "mcpl2phits"

\* a value of -c or -s in the forward tool
IsOptionValue(i) ==
  Forward /\ i > 1 /\ argv[i - 1] \in {<<"-", "c">>, <<"-", "s">>}
Positionals ==
  {i \in 1..Len(argv) : argv[i] # <<>> /\ argv[i][1] # "-" /\ ~IsOptionValue(i)}
Occurrences(token) == {i \in 1..Len(argv) : argv[i] = token}

HelpAsked ==
  \E i \in 1..Len(argv) :
     \/ argv[i] \in {<<"-", "h">>, <<"-", "-", "h", "e", "l", "p">>}
     \/ Reverse /\ argv[i] = <<"-", "f", "h">>

UnknownOption ==
  \E i \in 1..Len(argv) :
     \/ argv[i] = <<"-", "x">>
     \/ Reverse /\ argv[i] \in {<<"-", "-", "x">>, <<"-">>}
MissingValue ==
  \E i \in 1..Len(argv) :
     \/ /\ Forward /\ argv[i] \in {<<"-", "c">>, <<"-", "s">>}
        /\ (i = Len(argv) \/ (argv[i + 1] # <<>> /\ argv[i + 1][1] = "-"))
     \/ Reverse /\ argv[i] = <<"-", "l">>
RepeatedOption ==
  /\ Forward
  /\ \/ Cardinality(Occurrences(<<"-", "c">>)) > 1
     \/ Cardinality(Occurrences(<<"-", "s">>)) > 1
NonDigitLimit == Reverse /\ \E i \in 1..Len(argv) : argv[i] = <<"-", "l", "x">>
TooManyPositionals == Cardinality(Positionals) > 2
TooFewPositionals == Positionals = {}
SameInputOutput ==
  /\ Forward
  /\ \/ \E i, j \in Positionals :
          /\ i < j /\ argv[i] = argv[j]
          /\ \A k \in Positionals : k >= i
          /\ \A k \in Positionals : k > i => k >= j
     \/ /\ Cardinality(Positionals) = 1
        /\ \E i \in Positionals :
              argv[i] = <<"o", "u", "t", "p", "u", "t", ".", "m", "c", "p", "l">>

\* the errors found while the arguments are gone through, and all of them
ScanError ==
  UnknownOption \/ MissingValue \/ RepeatedOption \/ NonDigitLimit \/ TooManyPositionals
ArgumentError == ScanError \/ TooFewPositionals \/ SameInputOutput

-----------------------------------------------------------------------------
(* Further claims about mcpl2phits, under SpecM2P. *)

AssertionFailed ==
  m_pc = "abort" \/ \E i \in 1..Len(m_log) : m_log[i][1] = "Assertion failed"

\* C18: mcpl2phits rejects a marker width other than 4 or 8 with a fatal
\* error before the source is opened or the output file created, so that
\* assert(reclen==8) in phits_writerecord and assert(rawtype!=0) in the loop
\* never fail in a run of mcpl2phits.
C18_ReclenChecked ==
  /\ (m_reclen \notin {4, 8} /\ m_pc # "start") =>
        /\ m_pc = "exit"
        /\ m_open = {} /\ fout = <<>> /\ m_pos = 0
        /\ m_log = <<<<"ERROR: Reclen parameter", 0>>>>
  /\ (m_open # {} \/ fout # <<>> \/ m_nb # <<>>) => m_reclen \in {4, 8}
  /\ ~AssertionFailed

\* C18 witness: a call with marker width 2 ended in the fatal error
C18_Witness == m_reclen = 2 /\ m_pc = "exit" /\ Len(fmcpl) > 0 /\ m_log # <<>>

\* the particle count of the last message of a completed run
CreatedCount == m_log[Len(m_log)][2]

\* C19: at every iteration boundary of the loop of mcpl2phits the records
\* read are the written plus the skipped ones and the whole frames in the
\* output file are as many as the written counter says; so the count of the
\* final "Created ... with N particles" message is the number of records in
\* the file, and the remaining count logged when the limit is reached is
\* the number of source records not yet read.
C19_Counters ==
  /\ m_pc \in {"loop", "after", "done"} =>
        /\ m_pos = used + skipped_nophitstype
        /\ Len(fout) = 3 * used
        /\ StreamLength(fout) = used * FrameLength
  /\ m_pc = "done" =>
        /\ m_log[Len(m_log)][1] = "Created with particles"
        /\ 3 * CreatedCount = Len(fout)
  /\ \A i \in LimitMessages : m_log[i][2] = Len(fmcpl) - m_pos

\* C19 witness: a run of limit 1 on three records, the first skipped and the
\* last left unread, has completed with the remaining count 1 logged
C19_Witness ==
  /\ m_pc = "done" /\ nparticles_limit = 1 /\ Len(fmcpl) = 3 /\ m_pos = 2
  /\ skipped_nophitstype = 1 /\ CreatedCount = 1
  /\ \E i \in LimitMessages : m_log[i][2] = 1

-----------------------------------------------------------------------------
(* Claims about the reused buffers of both converters, under SpecConv. *)

\* the 13 fields of the record of an MCPL particle
AllFieldsOf(p) ==
  <<DblFromInt(conv_code_pdg2phits(p.pdgcode)),
    p.position[1], p.position[2], p.position[3],
    p.direction[1], p.direction[2], p.direction[3],
    p.ekin, p.weight, DblMul(p.time, Dbl1em6),
    p.polarisation[1], p.polarisation[2], p.polarisation[3]>>

Last(seq) == seq[Len(seq)]

\* C20: the reused buffers carry nothing from one particle to the next: in
\* both converters the buffer and the record last emitted hold, in every
\* field, what the particle they were emitted for gives, whatever particles
\* came before, skipped ones included; particles skipped leave the buffer
\* as it was.
C20_NoLeak ==
  /\ m_pc \in {"loop", "after", "done"} =>
       LET kept == KeptOfMcpl(m_pos)
       IN IF kept = <<>> THEN dumpdata = [i \in 1..13 |-> <<0, 0>>]
          ELSE /\ dumpdata = AllFieldsOf(ReadParticle(Last(kept)))
               /\ fout[Len(fout) - 1].unit
                    = SubSeq(ArrayBytes(dumpdata), 1, record_lbuf(use_polarisation))
  /\ (p_pc \in {"loop", "returned"} /\ p_pos > 0) =>
       LET kept == KeptOfPhits(p_pos)
       IN IF kept = <<>> THEN mcpl_particle = mcpl_get_empty_particle
          ELSE /\ mcpl_particle = ParticleOf(PhitsRecords[phitsdump[Last(kept)]])
               /\ Last(Appended) = mcpl_particle

\* C20 witness: phits2mcpl2 appended a neutron after an electron and a
\* skipped particle
C20_Witness ==
  /\ p_pc = "returned" /\ p_ret = 1 /\ phitsdump = <<1, 2, 3>>
  /\ Len(Appended) = 2 /\ Last(Appended).pdgcode = 2112
  /\ Last(Appended).weight = PhitsRecords[3].weight


-----------------------------------------------------------------------------
(* Claims about phitsmcpl_file2buf, under SpecF2B. *)

\* the call has returned to its caller
Returned == f_pc = "returned"

\* *buf points to a live block that holds every byte of the file, and *lbuf
\* is the number of bytes read
WholeFile ==
  /\ f_buf = "bbuf"
  /\ f_heap = "live"
  /\ f_got = f_file.size
  /\ f_lbuf = f_got

\* *buf is NULL and *lbuf is 0
Cleared == f_buf = "NULL" /\ f_lbuf = 0

\* C21: phitsmcpl_file2buf returns 1 only with *buf pointing to a buffer
\* that holds the whole content of the file and *lbuf equal to the number of
\* bytes read; every failure return is a return of 0 with *buf = NULL and
\* *lbuf = 0; so the caller never receives a partially filled or a freed
\* buffer.
C21_WholeOrNull ==
  Returned =>
    /\ f_ret \in {0, 1}
    /\ f_ret = 1 => WholeFile
    /\ f_ret = 0 => Cleared
    /\ f_buf # "NULL" => f_buf = "bbuf" /\ f_heap = "live" /\ f_got = f_file.size

=============================================================================
